---- MODULE Spec2Model ----
(***************************************************************************)
(* State-machine model of the TERR_A WhatsApp reporting bot (src/bot.py):  *)
(* the in-memory session store (user_states, user_history), the reports    *)
(* table, and the two webhook handlers handle_text and handle_callback.    *)
(* One turn of the environment is one incoming message handled to          *)
(* completion.  Callback ids offered by the environment are those the bot  *)
(* itself renders as buttons or list rows.                                 *)
(***************************************************************************)
EXTENDS Integers, Sequences, FiniteSets, TLC

\* ---------------------------------------------------------------- bounds
MaxTurns == 10
MaxReports == 3
NumRefs == 4
MaxStale == 1
MaxTurnsHist == 13
MaxTurnsReplay == 8
MaxItems == 2
MaxTurnsThreads == 8

\* ------------------------------------------------------ program constants
MaxHistory == 10
DayLimit == 24
MinHours == 1

\* ------------------------------------------------------------ vocabulary
Users == {"w", "t", "i", "b"}
Dates == <<"d1", "d2">>
Refs == 1..NumRefs

Absent == "absent"
NoneStep == "None"

is_it(u) ==
    u = "i"

is_tim(u) ==
    u = "t"

is_brigadier(u) ==
    u = "b"

\* A nested dict object (state["data"]["work"] or ["tim_report"]); a field
\* that was never assigned holds Absent (<<>> for names, 0 for hours).
EmptyObj ==
    [machinery |-> <<>>, date |-> Absent, work_type |-> Absent,
     activity_base |-> <<>>, grp |-> Absent, location |-> <<>>,
     loc_grp |-> Absent, crop |-> <<>>, activity |-> <<>>,
     act_grp |-> Absent, hours |-> 0]

\* The session buffer state["data"]; work and tim_report are references
\* into the heap of nested dict objects (0 = key not present).
EmptyData ==
    [dates_list |-> <<>>, next_prefix |-> Absent, date |-> Absent,
     work_type |-> Absent, work |-> 0, locs |-> Absent,
     temp_report |-> <<>>, tim_report |-> 0, template |-> <<>>,
     edit_records |-> <<>>, edit_queue |-> <<>>, current_edit_idx |-> 0]

IdleSession ==
    [state |-> NoneStep, data |-> EmptyData]

\* what the turn did: the one-line notice and the screen sent last, the
\* maximum addable figure of a budget rejection (-1 when none was sent),
\* whether a warning was written to the log, the callback that go_back
\* replayed, and whether the turn ended in an exception (which the dispatcher
\* logs)
NoOut ==
    [notice |-> "none", screen |-> "none", max |-> -1, warned |-> FALSE,
     replayed |-> "none", failed |-> FALSE]

\* The whole mutable store of the process, threaded through the handlers.
InitStore ==
    [us |-> [u \in Users |-> IdleSession],
     hist |-> [u \in Users |-> <<>>],
     heap |-> [r \in Refs |-> EmptyObj],
     reports |-> <<>>,
     sheets |-> "up",
     net |-> "up",
     restoring |-> FALSE,
     out |-> NoOut,
     pushed |-> <<>>,
     dropped |-> [u \in Users |-> FALSE],
     raised |-> FALSE,
     waiting |-> <<>>]

\* ------------------------------------------------------ state primitives
\* An exception is under way once raised is set: the statements that would
\* have followed are skipped, up to the dispatcher.
raise(S) ==
    [S EXCEPT !.raised = TRUE]

LastN(s, n) ==
    IF Len(s) > n THEN SubSeq(s, Len(s) - n + 1, Len(s)) ELSE s

\* faulty variant: the history is never trimmed
save_to_history_untrimmed(S, u, back_callback) ==
    IF S.restoring \/ S.us[u].state = NoneStep
    THEN S
    ELSE LET e == [state |-> S.us[u].state, data |-> S.us[u].data,
                   back_callback |-> back_callback]
         IN [S EXCEPT !.hist[u] = Append(@, e),
                      !.pushed = Append(@, e),
                      !.dropped[u] = (Len(S.hist[u]) + 1 > MaxHistory) \/ @]

\* faulty variant: the restoring flag is not looked at
save_to_history_while_restoring(S, u, back_callback) ==
    IF S.us[u].state = NoneStep
    THEN S
    ELSE LET e == [state |-> S.us[u].state, data |-> S.us[u].data,
                   back_callback |-> back_callback]
         IN [S EXCEPT !.hist[u] = LastN(Append(@, e), MaxHistory),
                      !.pushed = Append(@, e),
                      !.dropped[u] = (Len(S.hist[u]) + 1 > MaxHistory) \/ @]

save_to_history(S, u, back_callback) ==
    IF S.raised \/ S.restoring \/ S.us[u].state = NoneStep
    THEN S
    ELSE LET e == [state |-> S.us[u].state, data |-> S.us[u].data,
                   back_callback |-> back_callback]
         IN [S EXCEPT !.hist[u] = LastN(Append(@, e), MaxHistory),
                      !.pushed = Append(@, e),
                      !.dropped[u] = (Len(S.hist[u]) + 1 > MaxHistory) \/ @]

set_state(S, u, state, data, push, back_callback) ==
    LET S1 == IF push /\ S.us[u].state # NoneStep /\ back_callback # NoneStep
              THEN save_to_history(S, u, back_callback)
              ELSE S
    IN IF S.raised THEN S
       ELSE [S1 EXCEPT !.us[u] = [state |-> state, data |-> data]]

\* faulty variant: the step is reset, the buffer is left behind
clear_state_keep_data(S, u) ==
    [S EXCEPT !.us[u].state = NoneStep, !.hist[u] = <<>>, !.dropped[u] = FALSE]

\* faulty variant: the session is reset, the history is left behind
clear_state_keep_history(S, u) ==
    [S EXCEPT !.us[u] = IdleSession]

clear_state(S, u) ==
    IF S.raised THEN S
    ELSE [S EXCEPT !.us[u] = IdleSession, !.hist[u] = <<>>, !.dropped[u] = FALSE]

\* send_message raises when the request to the messaging API fails
send(S, screen) ==
    IF S.raised THEN S
    ELSE IF S.net = "down" THEN raise(S)
    ELSE [S EXCEPT !.out.screen = screen]

notify(S, notice) ==
    IF S.raised THEN S
    ELSE IF S.net = "down" THEN raise(S)
    ELSE [S EXCEPT !.out.notice = notice]

\* faulty variant: the figure sent is the hours already recorded, not the
\* hours that can still be added
budget_error_recorded(S, max_can_add) ==
    [S EXCEPT !.out.screen = "budget_error", !.out.max = DayLimit - max_can_add]

budget_error(S, max_can_add) ==
    [S EXCEPT !.out.screen = "budget_error", !.out.max = max_can_add]

\* ask for the hours: the prompt parses the draft's date (today when the
\* draft has none)
ask_hours(S) ==
    send(S, "ask:hours")

show_main_menu(S, u) ==
    send(S, "main_menu")

Today ==
    Dates[1]

\* dict.get(key, default) on a field that may be absent
get_or(v, default) ==
    IF v = Absent THEN default ELSE v

\* -------------------------------------------------- nested dict objects
DataRefs(d) ==
    {d.work, d.tim_report} \ {0}

HistRefs(S) ==
    UNION {UNION {DataRefs(S.hist[u][i].data) : i \in 1..Len(S.hist[u])} : u \in Users}

LiveRefs(S) ==
    UNION {DataRefs(S.us[u].data) : u \in Users} \cup HistRefs(S)

\* a fresh dict object: the smallest reference nobody holds
NewRef(S) ==
    CHOOSE r \in Refs \ LiveRefs(S) : \A q \in Refs \ LiveRefs(S) : r <= q

\* state["data"].get("work", {}) : the dict held under "work", or a new one
work_ref(S, u) ==
    IF S.us[u].data.work # 0 THEN S.us[u].data.work ELSE NewRef(S)

\* objects nobody references are collected at the end of the turn
collect(S) ==
    [S EXCEPT !.heap = [r \in Refs |-> IF r \in LiveRefs(S) THEN S.heap[r] ELSE EmptyObj]]

\* ---------------------------------------------------- message tokens
Digits == {"0", "00", "1", "6", "20", "25"}

isdigit(tok) ==
    tok \in Digits

int(tok) ==
    CASE tok = "1" -> 1
      [] tok = "6" -> 6
      [] tok = "20" -> 20
      [] tok = "25" -> 25
      [] OTHER -> 0

GROUP_TECH == "tekhnika"
GROUP_HAND == "ruchnaya"
GROUP_FIELDS == "polya"
GROUP_WARE == "sklad"

LenTractors == 8
LenActivitiesTractor == 10
LenActivitiesManual == 5
LenCrops == 7
LenFields == 13

\* the name standing at position tok of a catalogue
Item(list, tok) ==
    <<list, tok>>

put_work(S, u, ref, obj) ==
    [S EXCEPT !.heap[ref] = obj, !.us[u].data.work = ref]

\* ------------------------------------------------------------- database
sum_hours_for_user_date(reports, u, d, include_it) ==
    LET RECURSIVE Sum(_)
        Sum(i) ==
            IF i = 0 THEN 0
            ELSE Sum(i - 1)
                 + (IF /\ reports[i].user = u
                       /\ d # Absent
                       /\ reports[i].work_date = d
                       /\ (include_it \/ (reports[i].loc_grp # "it" /\ reports[i].act_grp # "it"))
                    THEN reports[i].hours ELSE 0)
    IN Sum(Len(reports))

\* the hand-off of one record to the spreadsheet: it raises while the
\* spreadsheet service is down, and the caller logs a warning and goes on
export_report_to_sheet(S) ==
    IF S.sheets = "down" THEN [S EXCEPT !.out.warned = TRUE] ELSE S

sync_report_update(S) ==
    IF S.sheets = "down" THEN [S EXCEPT !.out.warned = TRUE] ELSE S

insert_report(S, u, location, loc_grp, activity, act_grp, work_date, hours) ==
    export_report_to_sheet(
        [S EXCEPT !.reports = Append(@, [user |-> u, location |-> location,
                                         loc_grp |-> loc_grp, activity |-> activity,
                                         act_grp |-> act_grp, work_date |-> work_date,
                                         hours |-> hours])])

\* UPDATE reports SET hours=? WHERE id=? AND user_id=? ; the id of a record
\* is its position in the table
update_report_hours(S, report_id, u, new_hours) ==
    IF report_id \in 1..Len(S.reports) /\ S.reports[report_id].user = u
    THEN sync_report_update([S EXCEPT !.reports[report_id].hours = new_hours])
    ELSE S

\* the user's records of the last 24 hours, newest first
user_recent_24h_reports(reports, u) ==
    LET RECURSIVE Rows(_)
        Rows(i) ==
            IF i = 0 THEN <<>>
            ELSE (IF reports[i].user = u
                  THEN <<[rid |-> i, work_date |-> reports[i].work_date,
                          hours |-> reports[i].hours]>>
                  ELSE <<>>) \o Rows(i - 1)
    IN Rows(Len(reports))

\* ------------------------------------------------------- shared screens
show_date_selection(S, u, prefix) ==
    set_state(send(S, "date_list:" \o prefix), u, "waiting_date_selection_universal",
              [EmptyData EXCEPT !.dates_list = Dates, !.next_prefix = prefix],
              TRUE, NoneStep)

\* --------------------------------------------------- callback handlers
\* Re-render callbacks used as back targets (work:tractor:*, work:manual:*)
cb_rerender(S, u, step, writes_locs) ==
    LET d == IF writes_locs THEN [S.us[u].data EXCEPT !.locs = "fields"]
             ELSE S.us[u].data
    IN send(set_state(S, u, step, d, FALSE, NoneStep), "list:" \o step)

cb_work_choose_type(S, u) ==
    LET selected_date == get_or(S.us[u].data.date, Today)
    IN send(set_state(S, u, "pick_work_group",
                      [EmptyData EXCEPT !.date = selected_date], FALSE, NoneStep),
            "pick_work_group")

cb_menu_root(S, u) ==
    show_main_menu(clear_state(S, u), u)

cb_menu_settings(S, u) ==
    send(save_to_history(S, u, "menu:root"), "settings")

cb_menu_work(S, u) ==
    show_date_selection(save_to_history(S, u, "menu:root"), u, "work:date")

cb_work_date(S, u, selected_date) ==
    send(set_state(save_to_history(S, u, "menu:work"), u, "pick_work_group",
                   [EmptyData EXCEPT !.date = selected_date], FALSE, NoneStep),
         "pick_work_group")

cb_work_grp_tech(S, u) ==
    LET work_date == get_or(S.us[u].data.date, Today)
    IN send(set_state(S, u, "work_pick_type",
                      [EmptyData EXCEPT !.date = work_date], TRUE, "menu:work"),
            "work_pick_type")

\* state["data"]["work_type"] is written into the live buffer before
\* set_state takes its history snapshot
cb_work_type(S, u, wtype) ==
    LET d == [S.us[u].data EXCEPT !.work_type = wtype]
        S1 == [S EXCEPT !.us[u].data = d]
    IN CASE wtype = "tractor" ->
              send(set_state(S1, u, "work_tractor_machinery", d, TRUE, "work:choose:type"),
                   "list:work_tractor_machinery")
         [] wtype = "kamaz" ->
              send(set_state(S1, u, "work_kamaz_crop", d, FALSE, NoneStep),
                   "list:work_kamaz_crop")
         [] wtype = "manual" ->
              send(set_state(S1, u, "work_manual_activity", d, TRUE, "work:choose:type"),
                   "list:work_manual_activity")
         [] OTHER -> S1

\* date.fromisoformat(None) raises TypeError
bad_date(d) ==
    d = Absent

cb_confirm_worker(S, u) ==
    IF S.us[u].data.temp_report = <<>>
    THEN send(S, "stale")
    ELSE LET t == S.us[u].data.temp_report[1]
             S1 == insert_report(S, u, t.location, t.loc_grp, t.activity,
                                 t.act_grp, t.work_date, t.hours)
         IN IF bad_date(t.work_date)
            THEN raise(S1)
            ELSE show_main_menu(notify(clear_state(S1, u), "saved"), u)

cb_edit_worker(S, u) ==
    show_date_selection(S, u, "work:date")

cb_menu_stats(S, u) ==
    send(save_to_history(S, u, "menu:root"), "stats")

\* --------------------------------------------------------- foreman flow
cb_brig_report(S, u) ==
    show_date_selection(S, u, "brig:report:date")

cb_brig_report_date(S, u, selected_date) ==
    send(S, "brig_pick_crop")

\* the crop is chosen: the buffer is started anew and the rows are asked for
cb_brig_report_type(S, u, crop, selected_date) ==
    send(set_state(S, u, "brig_" \o crop \o "_rows",
                   [EmptyData EXCEPT !.work_type = crop, !.date = selected_date],
                   FALSE, NoneStep),
         "ask:rows")

\* temp_report["rows"] raises KeyError on a draft of another flow
cb_confirm_brig(S, u) ==
    IF S.us[u].data.temp_report = <<>> THEN send(S, "stale")
    ELSE raise(S)

\* ----------------------------------------------------------- edit flow
\* (no foreman record is ever written, so a foreman's list is empty)
cb_menu_edit_list(S, u) ==
    LET rows == user_recent_24h_reports(S.reports, u)
    IN IF is_brigadier(u) \/ rows = <<>> THEN send(S, "no_records")
       ELSE LET d == [S.us[u].data EXCEPT !.edit_records = rows]
            IN send(set_state(S, u, "waiting_edit_selection_multi", d, TRUE, NoneStep),
                    "edit_list")

\* the prompt for the record at the head of the queue; the statements that
\* follow the prompt in the function body read names the function does not
\* have, so the call raises once the prompt is out
process_edit_queue(S, u, data) ==
    IF data.current_edit_idx >= Len(data.edit_queue)
    THEN show_main_menu(clear_state(notify(S, "edited_all"), u), u)
    ELSE raise(send(set_state(S, u, "waiting_edit_queue_hours", data, TRUE, NoneStep),
                    "edit_prompt"))

\* ------------------------------------------------------------ TIM flow
TimRows(reports, u) ==
    {i \in 1..Len(reports) :
        reports[i].user = u /\ (reports[i].loc_grp = "tim" \/ reports[i].act_grp = "tim")}

\* the user's latest TIM report, offered as a template
last_tim_report(reports, u) ==
    IF TimRows(reports, u) = {} THEN <<>>
    ELSE LET i == CHOOSE k \in TimRows(reports, u) : \A j \in TimRows(reports, u) : j <= k
         IN <<[activity |-> reports[i].activity, location |-> reports[i].location,
               hours |-> reports[i].hours]>>

cb_tim_party(S, u) ==
    IF ~is_tim(u) THEN send(S, "no_rights")
    ELSE show_date_selection(S, u, "tim:date")

cb_tim_date(S, u, selected_date) ==
    LET tmpl == last_tim_report(S.reports, u)
    IN IF tmpl # <<>>
       THEN send(set_state(S, u, "tim_template_confirm",
                           [EmptyData EXCEPT !.date = selected_date, !.template = tmpl],
                           FALSE, NoneStep),
                 "tim_template_confirm")
       ELSE send(set_state(S, u, "tim_wait_activity",
                           [EmptyData EXCEPT !.date = selected_date], FALSE, NoneStep),
                 "ask:activity")

cb_tim_tmpl_yes(S, u) ==
    LET d == S.us[u].data
    IN IF d.template = <<>> \/ d.date = Absent THEN send(S, "error")
       ELSE LET ref == NewRef(S)
                obj == [EmptyObj EXCEPT !.activity = d.template[1].activity,
                                        !.location = d.template[1].location,
                                        !.date = d.date,
                                        !.hours = d.template[1].hours]
                S1 == [S EXCEPT !.heap[ref] = obj, !.us[u].data.tim_report = ref]
            IN send(set_state(S1, u, "tim_confirm", S1.us[u].data, FALSE, NoneStep),
                    "confirm:tim")

cb_tim_tmpl_no(S, u) ==
    send(set_state(S, u, "tim_wait_activity",
                   [EmptyData EXCEPT !.date = S.us[u].data.date], FALSE, NoneStep),
         "ask:activity")

cb_tim_edit_hours(S, u) ==
    send(set_state(S, u, "tim_wait_hours", S.us[u].data, FALSE, NoneStep), "ask:hours")

\* rep["location"], rep["hours"] raise KeyError on a report still being filled
_save_tim_report(S, u) ==
    IF S.us[u].data.tim_report = 0 THEN send(S, "error")
    ELSE LET rep == S.heap[S.us[u].data.tim_report]
         IN IF rep.location = <<>> \/ rep.activity = <<>> \/ rep.hours = 0
            THEN raise(S)
            ELSE show_main_menu(
                     clear_state(notify(insert_report(S, u, rep.location, "tim",
                                                      rep.activity, "tim", rep.date,
                                                      rep.hours), "saved"), u), u)

tx_tim_wait_activity(S, u, tok) ==
    IF tok = "0" THEN show_date_selection(S, u, "tim:date")
    ELSE LET ref == NewRef(S)
             obj == [EmptyObj EXCEPT !.activity = <<"text", tok>>,
                                     !.date = S.us[u].data.date]
             S1 == [S EXCEPT !.heap[ref] = obj, !.us[u].data.tim_report = ref]
         IN send(set_state(S1, u, "tim_wait_location", S1.us[u].data, FALSE, NoneStep),
                 "ask:location")

tx_tim_wait_location(S, u, tok) ==
    IF tok = "0"
    THEN send(set_state(S, u, "tim_wait_activity", S.us[u].data, FALSE, NoneStep),
              "ask:activity")
    ELSE IF S.us[u].data.tim_report = 0 THEN raise(S)
    ELSE LET S1 == [S EXCEPT !.heap[S.us[u].data.tim_report].location = <<"text", tok>>]
         IN send(set_state(S1, u, "tim_wait_hours", S1.us[u].data, FALSE, NoneStep),
                 "ask:hours")

tx_tim_wait_hours(S, u, tok) ==
    IF tok = "0"
    THEN send(set_state(S, u, "tim_wait_location", S.us[u].data, FALSE, NoneStep),
              "ask:location")
    ELSE IF ~isdigit(tok) THEN send(S, "error")
    ELSE IF ~(MinHours <= int(tok) /\ int(tok) <= DayLimit) THEN send(S, "error")
    ELSE IF S.us[u].data.tim_report = 0 THEN raise(S)
    ELSE LET ref == S.us[u].data.tim_report
             S1 == [S EXCEPT !.heap[ref].hours = int(tok)]
         IN IF bad_date(S1.heap[ref].date) THEN raise(S1)
            ELSE set_state(send(S1, "confirm:tim"), u, "tim_confirm", S1.us[u].data,
                           FALSE, NoneStep)

\* ------------------------------------------------------------- IT flow
cb_it_star(S, u) ==
    IF ~is_it(u) THEN send(S, "no_rights")
    ELSE show_date_selection(S, u, "it:date")

cb_it_date(S, u, selected_date) ==
    send(set_state(S, u, "it_waiting_hours", [EmptyData EXCEPT !.date = selected_date],
                   FALSE, NoneStep),
         "ask:hours")

cb_confirm_it(S, u) ==
    IF ~is_it(u) THEN send(S, "no_rights")
    ELSE IF S.us[u].data.temp_report = <<>> THEN send(S, "stale")
    ELSE LET t == S.us[u].data.temp_report[1]
             S1 == insert_report(S, u, t.location, t.loc_grp, t.activity,
                                 t.act_grp, t.work_date, t.hours)
         IN IF bad_date(t.work_date) THEN raise(S1)
            ELSE show_main_menu(notify(clear_state(S1, u), "saved"), u)

cb_edit_it(S, u) ==
    IF ~is_it(u) THEN send(S, "no_rights")
    ELSE send(set_state(S, u, "it_waiting_hours", EmptyData, FALSE, NoneStep), "ask:hours")

cb_back_to_date(S, u) ==
    show_date_selection(S, u, "it:date")

existing_it_hours(reports, u, d) ==
    LET RECURSIVE Sum(_)
        Sum(i) ==
            IF i = 0 THEN 0
            ELSE Sum(i - 1)
                 + (IF /\ reports[i].user = u
                       /\ reports[i].work_date = d
                       /\ (reports[i].loc_grp = "it" \/ reports[i].act_grp = "it")
                    THEN reports[i].hours ELSE 0)
    IN Sum(Len(reports))

\* faulty variant: the day's budget is consulted before the range of the
\* value
tx_it_waiting_hours_budget_first(S, u, tok) ==
    IF ~is_it(u) THEN clear_state(send(S, "no_rights"), u)
    ELSE IF tok = "0" THEN show_date_selection(S, u, "it:date")
    ELSE IF ~isdigit(tok) THEN send(S, "error")
    ELSE LET hours == int(tok)
             work_date == get_or(S.us[u].data.date, Today)
             existing == existing_it_hours(S.reports, u, work_date)
         IN IF existing + hours > DayLimit
            THEN budget_error(S, DayLimit - existing)
            ELSE IF ~(MinHours <= hours /\ hours <= DayLimit) THEN send(S, "error")
            ELSE LET temp_report == [location |-> <<"Manhattan">>, loc_grp |-> "it",
                                     activity |-> <<"automation">>, act_grp |-> "it",
                                     work_date |-> work_date, hours |-> hours]
                     d1 == [S.us[u].data EXCEPT !.temp_report = <<temp_report>>]
                 IN send(set_state(S, u, "waiting_confirmation_it", d1, FALSE, NoneStep),
                         "confirm:it")

tx_it_waiting_hours(S, u, tok) ==
    IF ~is_it(u) THEN clear_state(send(S, "no_rights"), u)
    ELSE IF tok = "0" THEN show_date_selection(S, u, "it:date")
    ELSE IF ~isdigit(tok) THEN send(S, "error")
    ELSE IF ~(MinHours <= int(tok) /\ int(tok) <= DayLimit) THEN send(S, "error")
    ELSE LET hours == int(tok)
             work_date == get_or(S.us[u].data.date, Today)
             existing == existing_it_hours(S.reports, u, work_date)
         IN IF existing + hours > DayLimit
            THEN budget_error(S, DayLimit - existing)
            ELSE LET temp_report == [location |-> <<"Manhattan">>, loc_grp |-> "it",
                                     activity |-> <<"automation">>, act_grp |-> "it",
                                     work_date |-> work_date, hours |-> hours]
                     d1 == [S.us[u].data EXCEPT !.temp_report = <<temp_report>>]
                 IN send(set_state(S, u, "waiting_confirmation_it", d1, FALSE, NoneStep),
                         "confirm:it")

cb_work_locgrp(S, u, lg) ==
    LET grp == IF lg = "fields" THEN GROUP_FIELDS ELSE GROUP_WARE
        ref == work_ref(S, u)
        S1 == [S EXCEPT !.heap[ref].loc_grp = grp]
        S2 == save_to_history(S1, u, "work:grp:tech")
    IN IF lg = "ware"
       THEN LET S3 == put_work(S2, u, ref, [S2.heap[ref] EXCEPT !.location = <<"Sklad">>])
                S4 == save_to_history(S3, u, "work:grp:tech")
            IN ask_hours(set_state(S4, u, "waiting_hours", S4.us[u].data, FALSE, NoneStep))
       ELSE LET S3 == put_work(S2, u, ref, S2.heap[ref])
                d == [S3.us[u].data EXCEPT !.locs = "fields"]
            IN send(set_state(S3, u, "waiting_location_selection", d, FALSE, NoneStep),
                    "list:waiting_location_selection")

\* ---------------------------------------------------- callback dispatch
DateOf(cb) ==
    CASE cb \in {"work:date:d1", "tim:date:d1", "it:date:d1", "brig:report:date:d1",
                 "brig:report:type:zucchini:d1", "brig:report:type:potato:d1"} -> "d1"
      [] OTHER -> "d2"

\* every branch of handle_callback except the two that call go_back
dispatch_callback(S, u, cb) ==
    CASE cb = "work:tractor:machinery" -> cb_rerender(S, u, "work_tractor_machinery", FALSE)
      [] cb = "work:tractor:activity" -> cb_rerender(S, u, "work_tractor_activity", FALSE)
      [] cb = "work:tractor:field" -> cb_rerender(S, u, "work_tractor_field", TRUE)
      [] cb = "work:tractor:crop" -> cb_rerender(S, u, "work_tractor_crop", FALSE)
      [] cb = "work:choose:type" -> cb_work_choose_type(S, u)
      [] cb = "work:manual:activity" -> cb_rerender(S, u, "work_manual_activity", FALSE)
      [] cb = "work:manual:field" -> cb_rerender(S, u, "work_manual_field", TRUE)
      [] cb = "work:manual:crop" -> cb_rerender(S, u, "work_manual_crop", FALSE)
      [] cb = "it:star" -> cb_it_star(S, u)
      [] cb \in {"it:date:d1", "it:date:d2"} -> cb_it_date(S, u, DateOf(cb))
      [] cb = "menu:root" -> cb_menu_root(S, u)
      [] cb = "menu:settings" -> cb_menu_settings(S, u)
      [] cb = "menu:work" -> cb_menu_work(S, u)
      [] cb = "menu:stats" -> cb_menu_stats(S, u)
      [] cb = "menu:edit_list" -> cb_menu_edit_list(S, u)
      [] cb = "brig:report" -> cb_brig_report(S, u)
      [] cb \in {"brig:report:date:d1", "brig:report:date:d2"} ->
             cb_brig_report_date(S, u, DateOf(cb))
      [] cb \in {"brig:report:type:zucchini:d1", "brig:report:type:zucchini:d2"} ->
             cb_brig_report_type(S, u, "zucchini", DateOf(cb))
      [] cb \in {"brig:report:type:potato:d1", "brig:report:type:potato:d2"} ->
             cb_brig_report_type(S, u, "potato", DateOf(cb))
      [] cb = "confirm:brig" -> cb_confirm_brig(S, u)
      [] cb = "tim:party" -> cb_tim_party(S, u)
      [] cb \in {"tim:date:d1", "tim:date:d2"} -> cb_tim_date(S, u, DateOf(cb))
      [] cb = "tim:tmpl:yes" -> cb_tim_tmpl_yes(S, u)
      [] cb = "tim:tmpl:no" -> cb_tim_tmpl_no(S, u)
      [] cb = "tim:edit:hours" -> cb_tim_edit_hours(S, u)
      [] cb \in {"tim:save:simple", "tim:save:template"} -> _save_tim_report(S, u)
      [] cb \in {"work:date:d1", "work:date:d2"} -> cb_work_date(S, u, DateOf(cb))
      [] cb = "work:grp:tech" -> cb_work_grp_tech(S, u)
      [] cb = "work:type:tractor" -> cb_work_type(S, u, "tractor")
      [] cb = "work:type:kamaz" -> cb_work_type(S, u, "kamaz")
      [] cb = "work:type:manual" -> cb_work_type(S, u, "manual")
      [] cb = "work:locgrp:fields" -> cb_work_locgrp(S, u, "fields")
      [] cb = "work:locgrp:ware" -> cb_work_locgrp(S, u, "ware")
      [] cb = "confirm:it" -> cb_confirm_it(S, u)
      [] cb = "edit:it" -> cb_edit_it(S, u)
      [] cb = "confirm:worker" -> cb_confirm_worker(S, u)
      [] cb = "edit:worker" -> cb_edit_worker(S, u)
      [] cb = "back_to_date" -> cb_back_to_date(S, u)
      [] OTHER -> S

\* pop the newest snapshot, reinstate it, then replay its back_callback
\* through handle_callback with _restoring_state set
\* faulty variant: the flag is reset after the replay has returned, not in
\* a finally clause
go_back_no_finally(S, u) ==
    LET h == S.hist[u]
        prev_state == h[Len(h)]
        S1 == [S EXCEPT !.hist[u] = SubSeq(h, 1, Len(h) - 1),
                        !.us[u] = [state |-> prev_state.state, data |-> prev_state.data]]
        S2 == dispatch_callback([S1 EXCEPT !.restoring = TRUE], u, prev_state.back_callback)
    IN [S2 EXCEPT !.restoring = S2.raised, !.out.replayed = prev_state.back_callback]

go_back(S, u) ==
    LET h == S.hist[u]
        prev_state == h[Len(h)]
        S1 == [S EXCEPT !.hist[u] = SubSeq(h, 1, Len(h) - 1),
                        !.us[u] = [state |-> prev_state.state, data |-> prev_state.data]]
        S2 == dispatch_callback([S1 EXCEPT !.restoring = TRUE], u, prev_state.back_callback)
    IN [S2 EXCEPT !.restoring = FALSE, !.out.replayed = prev_state.back_callback]

can_go_back(S, u) ==
    S.hist[u] # <<>>

handle_callback(S, u, cb) ==
    CASE cb = "back:prev" ->
              IF can_go_back(S, u) THEN go_back(S, u)
              ELSE show_main_menu(clear_state(S, u), u)
      [] cb = "cancel_location" ->
              IF can_go_back(S, u) THEN go_back(S, u)
              ELSE send(S, "pick_loc_group")
      [] OTHER -> dispatch_callback(S, u, cb)

\* ------------------------------------------------- worker text steps
\* faulty variant: the choice is checked against the lower end of the list
\* only
tx_work_tractor_machinery_unbounded(S, u, tok) ==
    IF tok = "0" THEN send(S, "work_pick_type")
    ELSE IF ~isdigit(tok) THEN send(S, "error")
    ELSE IF ~(1 <= int(tok)) THEN send(S, "error")
    ELSE LET ref == work_ref(S, u)
             obj == [S.heap[ref] EXCEPT !.machinery = Item("TRACTORS", tok),
                                        !.date = get_or(S.us[u].data.date, Today),
                                        !.work_type = "tractor"]
             S1 == put_work(S, u, ref, obj)
         IN send(set_state(S1, u, "work_tractor_activity", S1.us[u].data, TRUE,
                           "work:tractor:machinery"),
                 "list:work_tractor_activity")

tx_work_tractor_machinery(S, u, tok) ==
    IF tok = "0" THEN send(S, "work_pick_type")
    ELSE IF ~isdigit(tok) THEN send(S, "error")
    ELSE IF ~(1 <= int(tok) /\ int(tok) <= LenTractors) THEN send(S, "error")
    ELSE IF int(tok) = LenTractors
    THEN send(set_state(S, u, "work_tractor_machinery_custom", S.us[u].data, FALSE, NoneStep),
              "ask:machinery")
    ELSE LET ref == work_ref(S, u)
             obj == [S.heap[ref] EXCEPT !.machinery = Item("TRACTORS", tok),
                                        !.date = get_or(S.us[u].data.date, Today),
                                        !.work_type = "tractor"]
             S1 == put_work(S, u, ref, obj)
         IN send(set_state(S1, u, "work_tractor_activity", S1.us[u].data, TRUE,
                           "work:tractor:machinery"),
                 "list:work_tractor_activity")

tx_work_tractor_activity(S, u, tok) ==
    IF tok = "0"
    THEN set_state(send(S, "list:work_tractor_machinery"), u, "work_tractor_machinery",
                   S.us[u].data, FALSE, NoneStep)
    ELSE IF ~isdigit(tok) THEN send(S, "error")
    ELSE IF ~(1 <= int(tok) /\ int(tok) <= LenActivitiesTractor) THEN send(S, "error")
    ELSE IF int(tok) = LenActivitiesTractor
    THEN send(set_state(S, u, "work_tractor_activity_custom", S.us[u].data, FALSE, NoneStep),
              "ask:activity")
    ELSE LET ref == work_ref(S, u)
             obj == [S.heap[ref] EXCEPT !.activity_base = Item("ACTIVITIES_TRACTOR", tok),
                                        !.grp = GROUP_TECH]
             S1 == put_work(S, u, ref, obj)
             S2 == set_state(S1, u, "work_tractor_field", S1.us[u].data, TRUE,
                             "work:tractor:activity")
         IN send([S2 EXCEPT !.us[u].data.locs = "fields"], "list:work_tractor_field")

\* the field steps accept a list number or an exact name; no token of the
\* alphabet is a field name
find_field(S, u, tok) ==
    IF /\ isdigit(tok)
       /\ S.us[u].data.locs = "fields"
       /\ 0 <= int(tok) - 1
       /\ int(tok) - 1 < LenFields
    THEN Item("FIELDS", tok)
    ELSE <<>>

tx_work_tractor_field(S, u, tok) ==
    IF tok = "0"
    THEN set_state(send(S, "list:work_tractor_activity"), u, "work_tractor_activity",
                   S.us[u].data, FALSE, NoneStep)
    ELSE IF find_field(S, u, tok) = <<>> THEN send(S, "error")
    ELSE LET ref == work_ref(S, u)
             obj == [S.heap[ref] EXCEPT !.location = find_field(S, u, tok),
                                        !.loc_grp = GROUP_FIELDS]
             S1 == put_work(S, u, ref, obj)
         IN send(set_state(S1, u, "work_tractor_crop", S1.us[u].data, TRUE,
                           "work:tractor:field"),
                 "list:work_tractor_crop")

tx_work_tractor_crop(S, u, tok) ==
    IF tok = "0"
    THEN set_state(send(S, "list:work_tractor_field"), u, "work_tractor_field",
                   S.us[u].data, FALSE, NoneStep)
    ELSE IF ~isdigit(tok) THEN send(S, "error")
    ELSE IF ~(1 <= int(tok) /\ int(tok) <= LenCrops) THEN send(S, "error")
    ELSE IF int(tok) = LenCrops
    THEN send(set_state(S, u, "work_tractor_crop_custom", S.us[u].data, FALSE, NoneStep),
              "ask:crop")
    ELSE LET ref == work_ref(S, u)
             w == S.heap[ref]
             obj == [w EXCEPT !.crop = Item("CROPS", tok),
                              !.activity = <<"Traktor", w.machinery, w.activity_base,
                                             Item("CROPS", tok)>>,
                              !.act_grp = GROUP_TECH]
             S1 == put_work(S, u, ref, obj)
         IN ask_hours(set_state(S1, u, "waiting_hours", S1.us[u].data, TRUE,
                                "work:tractor:crop"))

tx_work_manual_activity(S, u, tok) ==
    IF tok = "0" THEN send(S, "work_pick_type")
    ELSE IF ~isdigit(tok) THEN send(S, "error")
    ELSE IF ~(1 <= int(tok) /\ int(tok) <= LenActivitiesManual) THEN send(S, "error")
    ELSE IF int(tok) = LenActivitiesManual
    THEN send(set_state(S, u, "work_manual_activity_custom", S.us[u].data, TRUE,
                        "work:manual:activity"),
              "ask:activity")
    ELSE LET ref == work_ref(S, u)
             obj == [S.heap[ref] EXCEPT !.activity_base = Item("ACTIVITIES_MANUAL", tok),
                                        !.grp = GROUP_HAND,
                                        !.work_type = "manual"]
             S1 == put_work(S, u, ref, obj)
             S2 == set_state(S1, u, "work_manual_field", S1.us[u].data, TRUE,
                             "work:manual:activity")
         IN send([S2 EXCEPT !.us[u].data.locs = "fields"], "list:work_manual_field")

tx_work_manual_field(S, u, tok) ==
    IF tok = "0"
    THEN set_state(send(S, "list:work_manual_activity"), u, "work_manual_activity",
                   S.us[u].data, FALSE, NoneStep)
    ELSE IF find_field(S, u, tok) = <<>> THEN send(S, "error")
    ELSE LET ref == work_ref(S, u)
             obj == [S.heap[ref] EXCEPT !.location = find_field(S, u, tok),
                                        !.loc_grp = GROUP_FIELDS]
             S1 == put_work(S, u, ref, obj)
         IN send(set_state(S1, u, "work_manual_crop", S1.us[u].data, TRUE,
                           "work:manual:field"),
                 "list:work_manual_crop")

tx_work_manual_crop(S, u, tok) ==
    IF tok = "0"
    THEN set_state(send(S, "list:work_manual_field"), u, "work_manual_field",
                   S.us[u].data, FALSE, NoneStep)
    ELSE IF ~isdigit(tok) THEN send(S, "error")
    ELSE IF ~(1 <= int(tok) /\ int(tok) <= LenCrops) THEN send(S, "error")
    ELSE IF int(tok) = LenCrops
    THEN send(set_state(S, u, "work_manual_crop_custom", S.us[u].data, FALSE, NoneStep),
              "ask:crop")
    ELSE LET ref == work_ref(S, u)
             w == S.heap[ref]
             obj == [w EXCEPT !.crop = Item("CROPS", tok),
                              !.activity = <<"Ruchnaya", w.activity_base, Item("CROPS", tok)>>,
                              !.act_grp = GROUP_HAND]
             S1 == put_work(S, u, ref, obj)
         IN ask_hours(set_state(S1, u, "waiting_hours", S1.us[u].data, TRUE,
                                "work:manual:crop"))

\* find_best_match over the list of fields, for the tokens of the chat: a
\* list number first, then a fuzzy name match; no token of the alphabet is
\* close to a field name
find_location(S, u, tok) ==
    find_field(S, u, tok)

tx_waiting_location_selection(S, u, tok) ==
    IF tok = "0" THEN send(S, "pick_loc_group")
    ELSE IF find_location(S, u, tok) = <<>> THEN send(S, "error")
    ELSE LET ref == work_ref(S, u)
             obj == [S.heap[ref] EXCEPT !.loc_grp = GROUP_FIELDS,
                                        !.location = find_location(S, u, tok)]
             S1 == put_work(S, u, ref, obj)
             S2 == save_to_history(S1, u, "work:grp:tech")
         IN ask_hours(set_state(S2, u, "waiting_hours", S2.us[u].data, FALSE, NoneStep))

tx_waiting_hours(S, u, tok) ==
    LET d == S.us[u].data
        w == IF d.work # 0 THEN S.heap[d.work] ELSE EmptyObj
    IN IF tok = "0"
       THEN IF w.loc_grp = GROUP_WARE
            THEN IF can_go_back(S, u) THEN go_back(S, u)
                 ELSE send(S, "pick_loc_group")
            ELSE send(set_state(S, u, "waiting_location_selection",
                                [d EXCEPT !.locs = "fields"], FALSE, NoneStep),
                      "list:waiting_location_selection")
       ELSE IF ~isdigit(tok) THEN send(S, "error")
       ELSE IF ~(MinHours <= int(tok) /\ int(tok) <= DayLimit) THEN send(S, "error")
       ELSE LET hours == int(tok)
                work_date == w.date
                existing_hours == sum_hours_for_user_date(S.reports, u, work_date, FALSE)
            IN IF existing_hours + hours > DayLimit
               THEN budget_error(S, DayLimit - existing_hours)
               ELSE LET temp_report == [location |-> w.location, loc_grp |-> w.loc_grp,
                                        activity |-> w.activity, act_grp |-> w.grp,
                                        work_date |-> work_date, hours |-> hours]
                        d1 == [d EXCEPT !.temp_report = <<temp_report>>]
                        S1 == [S EXCEPT !.us[u].data = d1]
                        S2 == set_state(S1, u, "waiting_confirmation_worker", d1, TRUE,
                                        IF w.work_type = "manual" THEN "work:manual:crop"
                                        ELSE NoneStep)
                    IN IF bad_date(work_date) THEN raise(S2)
                       ELSE send(S2, "confirm:worker")

tx_waiting_date_selection_universal(S, u, tok) ==
    LET d == S.us[u].data
    IN IF tok = "0" THEN show_main_menu(clear_state(S, u), u)
       ELSE IF ~isdigit(tok) THEN send(S, "error")
       ELSE IF ~(0 <= int(tok) - 1 /\ int(tok) - 1 < Len(d.dates_list)) THEN send(S, "error")
       ELSE LET selected_date == d.dates_list[int(tok)]
                nd == [EmptyData EXCEPT !.date = selected_date]
            IN CASE d.next_prefix = "work:date" ->
                      send(set_state(S, u, "pick_work_group", nd, TRUE, NoneStep),
                           "pick_work_group")
                 [] d.next_prefix = "it:date" ->
                      send(set_state(S, u, "it_waiting_hours", nd, FALSE, NoneStep),
                           "ask:hours")
                 [] d.next_prefix = "tim:date" ->
                      send(set_state(S, u, "tim_wait_activity", nd, FALSE, NoneStep),
                           "ask:activity")
                 [] OTHER -> S

\* ------------------------------------------------- edit text steps
tx_waiting_edit_selection_multi(S, u, tok) ==
    LET d == S.us[u].data
    IN IF tok = "0" THEN show_main_menu(clear_state(notify(S, "edit_cancelled"), u), u)
       ELSE IF ~isdigit(tok) THEN send(S, "error")
       ELSE IF ~(0 <= int(tok) - 1 /\ int(tok) - 1 < Len(d.edit_records)) THEN send(S, "error")
       ELSE LET d1 == [d EXCEPT !.edit_queue = <<d.edit_records[int(tok)]>>,
                                !.current_edit_idx = 0]
            IN process_edit_queue([S EXCEPT !.us[u].data = d1], u, d1)

tx_waiting_edit_queue_hours(S, u, tok) ==
    LET d == S.us[u].data
    IN IF tok = "0" THEN show_main_menu(clear_state(notify(S, "edit_cancelled"), u), u)
       ELSE IF ~isdigit(tok) THEN send(S, "error")
       ELSE IF ~(MinHours <= int(tok) /\ int(tok) <= DayLimit) THEN send(S, "error")
       ELSE IF d.current_edit_idx + 1 > Len(d.edit_queue) THEN raise(S)
       ELSE LET rid == d.edit_queue[d.current_edit_idx + 1].rid
                S1 == notify(update_report_hours(S, rid, u, int(tok)), "updated")
                d1 == [d EXCEPT !.current_edit_idx = @ + 1]
            IN process_edit_queue([S1 EXCEPT !.us[u].data = d1], u, d1)

\* -------------------------------------------------------- handle_text
\* The step branches of handle_text.  The command words other than "00" are
\* not among the message tokens; a step without a text branch falls off the
\* end.
dispatch_text(S, u, tok) ==
    LET st == S.us[u].state
    IN CASE st = "tim_wait_activity" -> tx_tim_wait_activity(S, u, tok)
         [] st = "tim_wait_location" -> tx_tim_wait_location(S, u, tok)
         [] st = "tim_wait_hours" -> tx_tim_wait_hours(S, u, tok)
         [] st = "work_tractor_machinery" -> tx_work_tractor_machinery(S, u, tok)
         [] st = "work_tractor_activity" -> tx_work_tractor_activity(S, u, tok)
         [] st = "work_tractor_field" -> tx_work_tractor_field(S, u, tok)
         [] st = "work_tractor_crop" -> tx_work_tractor_crop(S, u, tok)
         [] st = "work_manual_activity" -> tx_work_manual_activity(S, u, tok)
         [] st = "work_manual_field" -> tx_work_manual_field(S, u, tok)
         [] st = "work_manual_crop" -> tx_work_manual_crop(S, u, tok)
         [] st = "waiting_location_selection" -> tx_waiting_location_selection(S, u, tok)
         [] st = "waiting_date_selection_universal" ->
                tx_waiting_date_selection_universal(S, u, tok)
         [] st = "it_waiting_hours" -> tx_it_waiting_hours(S, u, tok)
         [] st = "waiting_hours" -> tx_waiting_hours(S, u, tok)
         [] st = "waiting_edit_selection_multi" ->
                tx_waiting_edit_selection_multi(S, u, tok)
         [] st = "waiting_edit_queue_hours" -> tx_waiting_edit_queue_hours(S, u, tok)
         [] OTHER -> S

\* faulty variant: the reset word is not looked for before the step
\* branches
handle_text_no_reset(S, u, tok) ==
    dispatch_text(S, u, tok)

\* the command words tried before the step is looked at (users are
\* registered, so cmd_start goes on to the menu as cmd_menu does)
CommandWords == {"menu", "start"}

handle_text(S, u, tok) ==
    IF tok = "00" THEN show_main_menu(notify(clear_state(S, u), "reset"), u)
    ELSE IF tok \in CommandWords THEN show_main_menu(S, u)
    ELSE dispatch_text(S, u, tok)

\* ------------------------------------------------------------- variables
\* store : the process state;  actor : the user whose chat is followed;
\* turns : messages handled so far;  stale : presses so far of a button
\*         from further up the chat.
VARIABLES store, actor, turns, stale

vars == <<store, actor, turns, stale>>

Deep(S, d) ==
    [d EXCEPT !.work = IF d.work = 0 THEN <<>> ELSE <<S.heap[d.work]>>,
              !.tim_report = IF d.tim_report = 0 THEN <<>> ELSE <<S.heap[d.tim_report]>>]

PairOf(S, u) ==
    [step |-> S.us[u].state, buffer |-> Deep(S, S.us[u].data)]

\* reports already in the table when the process starts
Seed(u) ==
    CASE u = "w" -> [user |-> "w", location |-> Item("FIELDS", "1"), loc_grp |-> GROUP_FIELDS,
                     activity |-> <<"Traktor", Item("TRACTORS", "1"),
                                    Item("ACTIVITIES_TRACTOR", "1"), Item("CROPS", "1")>>,
                     act_grp |-> GROUP_TECH, work_date |-> "d1", hours |-> 6]
      [] u = "t" -> [user |-> "t", location |-> <<"text", "abc">>, loc_grp |-> "tim",
                     activity |-> <<"text", "abc">>, act_grp |-> "tim",
                     work_date |-> "d1", hours |-> 20]
      [] OTHER -> [user |-> "i", location |-> <<"Manhattan">>, loc_grp |-> "it",
                   activity |-> <<"automation">>, act_grp |-> "it",
                   work_date |-> "d1", hours |-> 6]

Init ==
    /\ actor \in Users
    /\ \E rs \in (IF is_brigadier(actor) THEN {<<>>} ELSE {<<>>, <<Seed(actor)>>}) :
           store = [InitStore EXCEPT !.reports = rs]
    /\ turns = 0
    /\ stale = 0

begin(S) ==
    [S EXCEPT !.out = NoOut, !.pushed = <<>>, !.raised = FALSE]

\* what stays in memory once the handler has returned (or raised into
\* the dispatcher, which logs the exception and carries on)
settle(S) ==
    [collect(S) EXCEPT !.pushed = <<>>, !.raised = FALSE, !.net = "up",
                       !.out.failed = S.raised]

\* one webhook delivery handled to completion
DeliverWithin(bound, S1) ==
    /\ turns < bound
    /\ Len(S1.reports) <= MaxReports
    /\ store' = settle(S1)
    /\ turns' = turns + 1
    /\ actor' = actor

Deliver(S1) ==
    DeliverWithin(MaxTurns, S1)

\* ------------------------------------------------------- environment
HoursSteps ==
    {"waiting_hours", "tim_wait_hours", "it_waiting_hours", "waiting_edit_queue_hours"}

\* what the user types as an answer: an hour count at the hours steps, a
\* list number or a word elsewhere
Answers(S, u) ==
    IF S.us[u].state \in HoursSteps THEN {"6", "20"} ELSE {"1"}

Invalid == {"25", "abc"}

\* the callback ids the bot renders for each role
Buttons(u) ==
    CASE u = "w" -> {"menu:work", "menu:settings", "work:date:d1", "work:date:d2",
                     "work:grp:tech", "work:type:tractor", "work:type:manual",
                     "work:locgrp:fields", "work:locgrp:ware", "cancel_location",
                     "back_to_loc", "confirm:worker", "edit:worker"}
      [] u = "t" -> {"tim:party", "menu:stats", "tim:date:d1", "tim:date:d2",
                     "tim:tmpl:yes", "tim:tmpl:no", "tim:edit:hours", "tim:save:simple"}
      [] u = "b" -> {"brig:report", "brig:report:date:d1", "brig:report:date:d2",
                     "brig:report:type:zucchini:d1", "brig:report:type:zucchini:d2",
                     "brig:report:type:potato:d1", "brig:report:type:potato:d2"}
      [] OTHER -> {"it:star", "it:date:d1", "it:date:d2", "confirm:it", "edit:it",
                   "back_to_date", "menu:stats", "menu:edit_list"}

MenuButtons(u) ==
    CASE u = "w" -> {"menu:work", "menu:settings"}
      [] u = "t" -> {"tim:party", "menu:stats"}
      [] u = "b" -> {"brig:report"}
      [] OTHER -> {"it:star", "menu:stats"}

\* the buttons of the screen rendered last; the root menu stays in reach
Shown(S, u) ==
    LET scr == S.out.screen
    IN Buttons(u) \cap
       (CASE scr \in {"none", "main_menu"} -> MenuButtons(u)
          [] scr = "date_list:work:date" -> {"work:date:d1", "work:date:d2"}
          [] scr = "date_list:tim:date" -> {"tim:date:d1", "tim:date:d2"}
          [] scr = "date_list:it:date" -> {"it:date:d1", "it:date:d2"}
          [] scr = "pick_work_group" -> {"work:grp:tech", "work:type:manual"}
          [] scr = "work_pick_type" -> {"work:type:tractor", "work:type:manual"}
          [] scr = "pick_loc_group" -> {"work:locgrp:fields", "work:locgrp:ware"}
          [] scr = "list:waiting_location_selection" -> {"cancel_location"}
          [] scr = "ask:hours" -> {"back_to_loc", "back_to_date"}
          [] scr = "confirm:worker" -> {"confirm:worker", "edit:worker"}
          [] scr = "confirm:it" -> {"confirm:it", "edit:it"}
          [] scr = "tim_template_confirm" -> {"tim:tmpl:yes", "tim:tmpl:no"}
          [] scr = "confirm:tim" -> {"tim:save:simple", "tim:edit:hours", "tim:party"}
          [] scr = "stats" -> {"menu:edit_list"}
          [] scr = "date_list:brig:report:date" ->
                 {"brig:report:date:d1", "brig:report:date:d2"}
          [] scr = "brig_pick_crop" ->
                 {"brig:report:type:zucchini:d1", "brig:report:type:zucchini:d2",
                  "brig:report:type:potato:d1", "brig:report:type:potato:d2",
                  "brig:report"}
          [] scr = "ask:rows" -> {"brig:report:date:d1", "brig:report:date:d2"}
          [] OTHER -> {})

HardReset ==
    /\ Deliver(handle_text(begin(store), actor, "00"))
    /\ stale' = stale

TypeZero ==
    /\ Deliver(handle_text(begin(store), actor, "0"))
    /\ stale' = stale

TypeAnswer ==
    /\ \E tok \in Answers(store, actor) :
           Deliver(handle_text(begin(store), actor, tok))
    /\ stale' = stale

TypeInvalid ==
    /\ \E tok \in Invalid :
           Deliver(handle_text(begin(store), actor, tok))
    /\ stale' = stale

PressBack ==
    /\ Deliver(handle_callback(begin(store), actor, "back:prev"))
    /\ stale' = stale

PressButton ==
    /\ \E cb \in Shown(store, actor) :
           Deliver(handle_callback(begin(store), actor, cb))
    /\ stale' = stale

\* buttons of earlier screens that the user may return to
StaleButtons(u) ==
    CASE u = "w" -> {"confirm:worker", "work:type:manual"}
      [] u = "t" -> {"tim:save:simple", "tim:edit:hours"}
      [] u = "b" -> {"confirm:brig"}
      [] OTHER -> {"confirm:it"}

\* a button of an earlier screen, still in the chat
PressStale ==
    /\ stale < MaxStale
    /\ \E cb \in StaleButtons(actor) \ Shown(store, actor) :
           Deliver(handle_callback(begin(store), actor, cb))
    /\ stale' = stale + 1

Next ==
    \/ HardReset
    \/ TypeZero
    \/ TypeAnswer
    \/ TypeInvalid
    \/ PressBack
    \/ PressButton
    \/ PressStale

Spec == Init /\ [][Next]_vars

\* ------------------------------------------ a long chat of one worker
\* The worker keeps returning to the tractor button of an earlier screen
\* and answering the list that follows, so that the history stack fills up
\* and overflows.
InitHist ==
    /\ actor = "w"
    /\ store = InitStore
    /\ turns = 0
    /\ stale = 0

AgainTractor ==
    /\ DeliverWithin(MaxTurnsHist, handle_callback(begin(store), actor, "work:type:tractor"))
    /\ stale' = stale

PickFirst ==
    /\ DeliverWithin(MaxTurnsHist, handle_text(begin(store), actor, "1"))
    /\ stale' = stale

StepBack ==
    /\ DeliverWithin(MaxTurnsHist, handle_callback(begin(store), actor, "back:prev"))
    /\ stale' = stale

NextHist ==
    \/ AgainTractor
    \/ PickFirst
    \/ StepBack

SpecHist == InitHist /\ [][NextHist]_vars

\* ------------------------------------- the spreadsheet service is down
\* The same chats, held while every hand-off to the spreadsheet fails.
InitSheets ==
    /\ actor \in Users
    /\ \E rs \in (IF is_brigadier(actor) THEN {<<>>} ELSE {<<>>, <<Seed(actor)>>}) :
           store = [InitStore EXCEPT !.reports = rs, !.sheets = "down"]
    /\ turns = 0
    /\ stale = 0

SpecSheets == InitSheets /\ [][Next]_vars

\* ----------------------------------- a worker stepping back while offline
\* The worker fills in a report and steps back now and then; some of the
\* steps back happen while the messaging API is down, so that the handler
\* replayed by go_back raises where it sends its screen.
InitReplay ==
    /\ actor = "w"
    /\ store = InitStore
    /\ turns = 0
    /\ stale = 0

ReplayForward ==
    /\ \E cb \in Shown(store, actor) :
           DeliverWithin(MaxTurnsReplay, handle_callback(begin(store), actor, cb))
    /\ stale' = stale

ReplayAnswer ==
    /\ \E tok \in Answers(store, actor) \cup {"0"} :
           DeliverWithin(MaxTurnsReplay, handle_text(begin(store), actor, tok))
    /\ stale' = stale

ReplayBack ==
    /\ DeliverWithin(MaxTurnsReplay, handle_callback(begin(store), actor, "back:prev"))
    /\ stale' = stale

ReplayBackOffline ==
    /\ DeliverWithin(MaxTurnsReplay,
                     handle_callback([begin(store) EXCEPT !.net = "down"], actor, "back:prev"))
    /\ stale' = stale

NextReplay ==
    \/ ReplayForward
    \/ ReplayAnswer
    \/ ReplayBack
    \/ ReplayBackOffline

SpecReplay == InitReplay /\ [][NextReplay]_vars

\* ------------------------------------------------------ find_best_match
\* Strings are sequences of characters here, so that strip, lower, isdigit,
\* int and the similarity ratio of difflib do what they do in the code.
DigitChars == {"0", "1", "2", "3"}

strip(text) ==
    LET RECURSIVE Left(_), Right(_)
        Left(t) == IF t # <<>> /\ Head(t) = " " THEN Left(Tail(t)) ELSE t
        Right(t) == IF t # <<>> /\ t[Len(t)] = " " THEN Right(SubSeq(t, 1, Len(t) - 1)) ELSE t
    IN Right(Left(text))

lower(text) ==
    [i \in 1..Len(text) |-> IF text[i] = "A" THEN "a" ELSE text[i]]

str_isdigit(text) ==
    text # <<>> /\ \A i \in 1..Len(text) : text[i] \in DigitChars

str_int(text) ==
    LET Val(c) == CASE c = "0" -> 0 [] c = "1" -> 1 [] c = "2" -> 2 [] OTHER -> 3
        RECURSIVE Fold(_)
        Fold(k) == IF k = 0 THEN 0 ELSE 10 * Fold(k - 1) + Val(text[k])
    IN Fold(Len(text))

\* the order of characters and of strings (code points)
CharRank(c) ==
    CASE c = " " -> 0 [] c = "0" -> 1 [] c = "1" -> 2 [] c = "2" -> 3 [] c = "3" -> 4
      [] c = "A" -> 5 [] c = "a" -> 6 [] OTHER -> 7

RECURSIVE StrLess(_, _)
StrLess(x, y) ==
    IF y = <<>> THEN FALSE
    ELSE IF x = <<>> THEN TRUE
    ELSE IF Head(x) # Head(y) THEN CharRank(Head(x)) < CharRank(Head(y))
    ELSE StrLess(Tail(x), Tail(y))

\* SequenceMatcher.find_longest_match: the longest common block of
\* a[alo..ahi] and b[blo..bhi], the one that starts earliest in a, and of
\* those the one that starts earliest in b
RECURSIVE RunLen(_, _, _, _, _, _)
RunLen(a, i, ahi, b, j, bhi) ==
    IF i > ahi \/ j > bhi THEN 0
    ELSE IF a[i] # b[j] THEN 0
    ELSE 1 + RunLen(a, i + 1, ahi, b, j + 1, bhi)

find_longest_match(a, alo, ahi, b, blo, bhi) ==
    LET cands == (alo..ahi) \X (blo..bhi)
        len(c) == RunLen(a, c[1], ahi, b, c[2], bhi)
        better(c, d) == \/ len(c) > len(d)
                        \/ len(c) = len(d) /\ c[1] < d[1]
                        \/ len(c) = len(d) /\ c[1] = d[1] /\ c[2] <= d[2]
    IN IF cands = {} THEN <<alo, blo, 0>>
       ELSE LET best == CHOOSE c \in cands : \A d \in cands : better(c, d)
            IN <<best[1], best[2], len(best)>>

\* SequenceMatcher.get_matching_blocks: the characters matched in all
RECURSIVE Matches(_, _, _, _, _, _)
Matches(a, alo, ahi, b, blo, bhi) ==
    LET m == find_longest_match(a, alo, ahi, b, blo, bhi)
    IN IF m[3] = 0 THEN 0
       ELSE m[3] + Matches(a, alo, m[1] - 1, b, blo, m[2] - 1)
                 + Matches(a, m[1] + m[3], ahi, b, m[2] + m[3], bhi)

\* SequenceMatcher.ratio() = 2.0 * M / T, kept as the fraction <<2M, T>>
ratio(a, b) ==
    <<2 * Matches(a, 1, Len(a), b, 1, Len(b)), Len(a) + Len(b)>>

\* cutoff = 0.4
CutoffNum == 2
CutoffDen == 5

\* difflib.get_close_matches(word, possibilities, n=1, cutoff=0.4): the
\* possibility with the largest (ratio, string) among those that reach the
\* cutoff
get_close_matches(word, possibilities) ==
    LET close == {x \in possibilities :
                     ratio(x, word)[1] * CutoffDen >= CutoffNum * ratio(x, word)[2]}
        above(x, y) == LET rx == ratio(x, word)
                           ry == ratio(y, word)
                       IN \/ rx[1] * ry[2] > ry[1] * rx[2]
                          \/ rx[1] * ry[2] = ry[1] * rx[2] /\ (x = y \/ StrLess(y, x))
    IN IF close = {} THEN <<>>
       ELSE <<CHOOSE x \in close : \A y \in close : above(x, y)>>

\* {item[1].lower(): item for item in items}: the last item of a name wins
name_map(items, key) ==
    LET at == {i \in 1..Len(items) : lower(items[i].name) = key}
    IN items[CHOOSE i \in at : \A j \in at : j <= i]

\* faulty variant: the names are compared first, the list number is the
\* fallback
find_best_match_by_name_first(user_input, items) ==
    LET text == strip(user_input)
        keys == {lower(items[i].name) : i \in 1..Len(items)}
        matches == get_close_matches(lower(text), keys)
    IN IF text = <<>> THEN <<>>
       ELSE IF matches # <<>> THEN <<name_map(items, matches[1])>>
       ELSE IF str_isdigit(text) /\ 0 <= str_int(text) - 1 /\ str_int(text) - 1 < Len(items)
       THEN <<items[str_int(text)]>>
       ELSE <<>>

\* None is <<>>, an item is <<item>>
find_best_match(user_input, items) ==
    LET text == strip(user_input)
        keys == {lower(items[i].name) : i \in 1..Len(items)}
        matches == get_close_matches(lower(text), keys)
    IN IF text = <<>> THEN <<>>
       ELSE IF str_isdigit(text) /\ 0 <= str_int(text) - 1 /\ str_int(text) - 1 < Len(items)
       THEN <<items[str_int(text)]>>
       ELSE IF matches # <<>> THEN <<name_map(items, matches[1])>>
       ELSE <<>>

\* what is typed at a list, and the names a list may hold
UserInputs ==
    {<<>>, <<" ">>, <<"0">>, <<"1">>, <<"2">>, <<"3">>, <<"0", "1">>, <<" ", "1">>,
     <<"2", " ">>, <<"1", "2">>, <<"a">>, <<"A">>, <<"b">>, <<"a", "1">>, <<"A", "b">>}

Names ==
    {<<"1">>, <<"2">>, <<"a">>, <<"A", "1">>, <<"a", "b">>}

\* the lists of at most MaxItems (id, name) pairs; the ids are not the
\* positions
RECURSIVE NameLists(_)
NameLists(n) ==
    IF n = 0 THEN {<<>>}
    ELSE NameLists(n - 1)
         \cup {Append(l, x) : l \in {k \in NameLists(n - 1) : Len(k) = n - 1}, x \in Names}

ItemLists ==
    {[i \in 1..Len(l) |-> [id |-> 10 * (Len(l) + 1 - i), name |-> l[i]]] : l \in NameLists(MaxItems)}

InitMatch ==
    /\ \E user_input \in UserInputs, items \in ItemLists :
           store = [user_input |-> user_input, items |-> items, resolved |-> FALSE,
                    result |-> <<>>]
    /\ actor = "w"
    /\ turns = 0
    /\ stale = 0

Resolve ==
    /\ ~store.resolved
    /\ store' = [store EXCEPT !.resolved = TRUE,
                              !.result = find_best_match(store.user_input, store.items)]
    /\ UNCHANGED <<actor, turns, stale>>

NextMatch ==
    Resolve

SpecMatch == InitMatch /\ [][NextMatch]_vars

\* ================================================================ properties
\* hours of u's committed records for date d that count against the day
\* (records of the IT flow are kept apart)
CommittedHours(reports, u, d) ==
    LET idx == {i \in 1..Len(reports) :
                   /\ reports[i].user = u
                   /\ reports[i].work_date = d
                   /\ reports[i].loc_grp # "it"
                   /\ reports[i].act_grp # "it"}
        RECURSIVE Total(_)
        Total(I) ==
            IF I = {} THEN 0
            ELSE LET i == CHOOSE k \in I : TRUE
                 IN reports[i].hours + Total(I \ {i})
    IN Total(idx)

DateSet == {Dates[i] : i \in 1..Len(Dates)}

\* C1: for every user and date, the hours of the user's committed,
\* non-excluded records for that date never sum to more than 24.
C1_BudgetInvariant ==
    \A u \in Users, d \in DateSet : CommittedHours(store.reports, u, d) <= DayLimit

\* what the user may send next: an answer typed in, or a button of the
\* screen rendered last
Inputs(S, u) ==
    {<<"text", tok>> : tok \in Answers(S, u)} \cup {<<"cb", cb>> : cb \in Shown(S, u)}

\* the turn that handles input inp, up to the handler's return
Handle(S, u, inp) ==
    IF inp[1] = "text" THEN handle_text(begin(S), u, inp[2])
    ELSE handle_callback(begin(S), u, inp[2])

Back(S, u) ==
    settle(handle_callback(begin(S), u, "back:prev"))

\* C2: one back after one successful forward transition that pushed a
\* history entry restores the exact (step, buffer) pair that existed before
\* the transition (the case k = 1 of the law).
C2_BackRestoresPair ==
    \A inp \in Inputs(store, actor) :
        LET H == Handle(store, actor, inp)
        IN (/\ Len(H.pushed) = 1
            /\ ~H.raised
            /\ H.us[actor].state # store.us[actor].state)
           => PairOf(Back(settle(H), actor), actor) = PairOf(store, actor)

\* the capture steps that validate what is typed (the TIM activity and
\* location steps take any text)
ValidatedSteps ==
    {"tim_wait_hours", "work_tractor_machinery", "work_tractor_activity",
     "work_tractor_field", "work_tractor_crop", "work_manual_activity",
     "work_manual_field", "work_manual_crop", "waiting_location_selection",
     "waiting_date_selection_universal", "it_waiting_hours", "waiting_hours"}

Typed(S, u, tok) ==
    settle(handle_text(begin(S), u, tok))

C4_CommitClearsSession ==
    [][Len(store'.reports) > Len(store.reports)
         => /\ store'.us[actor] = IdleSession
            /\ store'.out.screen = "main_menu"]_vars

\* C5: from every reachable state a turn carrying "00" clears the session
\* (step null, buffer empty, history empty), renders the root menu and
\* leaves the records alone.
C5_HardReset ==
    LET S1 == Typed(store, actor, "00")
    IN /\ S1.us[actor] = IdleSession
       /\ S1.hist[actor] = <<>>
       /\ S1.out.screen = "main_menu"
       /\ S1.reports = store.reports

\* a draft at the hours step, with history behind it, that "00" wipes
C5_Witness ==
    /\ store.us[actor].state = "waiting_hours"
    /\ Len(store.hist[actor]) >= 3
    /\ Typed(store, actor, "00").us[actor] = IdleSession
    /\ Typed(store, actor, "00").out.notice = "reset"

\* C6: clear_state resets the user's step and buffer and empties the user's
\* history, whatever they held, and touches no other user; in every turn a
\* session that becomes idle has its history emptied with it, and a history
\* of several entries is emptied only together with the session.
C6_ClearTogether ==
    [][/\ \A u \in Users :
            LET S1 == clear_state(store, u)
            IN /\ S1.us[u] = IdleSession
               /\ S1.hist[u] = <<>>
               /\ \A v \in Users \ {u} : S1.us[v] = store.us[v] /\ S1.hist[v] = store.hist[v]
       /\ (store.us[actor] # IdleSession /\ store'.us[actor] = IdleSession)
              => store'.hist[actor] = <<>>
       /\ (Len(store.hist[actor]) > 1 /\ store'.hist[actor] = <<>>)
              => store'.us[actor] = IdleSession]_vars

\* the worker's report was just saved: the draft and the history that led to
\* it are both gone
C6_Witness ==
    /\ actor = "w"
    /\ store.out.notice = "saved"
    /\ store.us["w"] = IdleSession
    /\ store.hist["w"] = <<>>

\* what the worker of the long chat may send next
HistInputs ==
    {<<"cb", "work:type:tractor">>, <<"text", "1">>, <<"cb", "back:prev">>}

\* C7: every user's history holds at most 10 entries, and a turn that
\* pushes entries leaves the last 10 of the old history followed by the
\* pushed entries, in order.
C7_HistoryBound ==
    /\ \A u \in Users : Len(store.hist[u]) <= MaxHistory
    /\ \A inp \in HistInputs :
           LET H == Handle(store, actor, inp)
           IN H.pushed # <<>>
                  => H.hist[actor] = LastN(store.hist[actor] \o H.pushed, MaxHistory)

\* the history is full and has already dropped its oldest entry
C7_Witness ==
    /\ store.dropped[actor]
    /\ Len(store.hist[actor]) = MaxHistory

\* C8: in every reachable state a session whose step is null has an empty
\* buffer.
C8_IdleHasEmptyBuffer ==
    \A u \in Users : store.us[u].state = NoneStep => store.us[u].data = EmptyData

\* the TIM user is idle again after a report was saved from a filled buffer
C8_Witness ==
    /\ actor = "t"
    /\ store.us["t"].state = NoneStep
    /\ store.out.notice = "saved"
    /\ turns > 0

\* hours of u's committed IT records for date d
CommittedItHours(reports, u, d) ==
    LET idx == {i \in 1..Len(reports) :
                   /\ reports[i].user = u
                   /\ reports[i].work_date = d
                   /\ (reports[i].loc_grp = "it" \/ reports[i].act_grp = "it")}
        RECURSIVE Total(_)
        Total(I) ==
            IF I = {} THEN 0
            ELSE LET i == CHOOSE k \in I : TRUE
                 IN reports[i].hours + Total(I \ {i})
    IN Total(idx)

\* the date of the draft the user is entering hours for (Absent when the
\* draft has none)
DraftDate(S, u) ==
    LET d == S.us[u].data
    IN CASE S.us[u].state = "it_waiting_hours" -> get_or(d.date, Today)
         [] S.us[u].state \in {"tim_wait_hours", "tim_confirm"} ->
                IF d.tim_report = 0 THEN Absent ELSE S.heap[d.tim_report].date
         [] OTHER -> IF d.work = 0 THEN Absent ELSE S.heap[d.work].date

\* the hours that count against the draft's day: IT records in the IT
\* flow, all other records in the worker and TIM flows
AlreadyCommitted(S, u) ==
    IF S.us[u].state = "it_waiting_hours"
    THEN CommittedItHours(S.reports, u, DraftDate(S, u))
    ELSE CommittedHours(S.reports, u, DraftDate(S, u))

OverBudget(S, u, hours) ==
    DraftDate(S, u) # Absent /\ AlreadyCommitted(S, u) + hours > DayLimit

Rejected(S1) ==
    PairOf(S1, actor) = PairOf(store, actor) /\ S1.reports = store.reports

\* C9: an attempt that would take the day over 24 hours (the hours typed at
\* an hours step, or the TIM report submitted for saving) persists no
\* record and leaves the session's step and buffer as they were.
C9_OverBudgetRejected ==
    /\ \A tok \in {"6", "20"} :
           (store.us[actor].state \in HoursSteps /\ OverBudget(store, actor, int(tok)))
               => Rejected(Typed(store, actor, tok))
    /\ (/\ store.us[actor].state = "tim_confirm"
        /\ store.us[actor].data.tim_report # 0
        /\ OverBudget(store, actor, store.heap[store.us[actor].data.tim_report].hours))
           => Rejected(settle(handle_callback(begin(store), actor, "tim:save:simple")))

\* C10: after a budget rejection the figure reported as the most that can
\* still be added is 24 minus the hours the user has already committed for
\* the draft's date.
C10_MaxAddable ==
    store.out.screen = "budget_error"
        => store.out.max = DayLimit - AlreadyCommitted(store, actor)

\* 6 hours are committed for the day and a submission of 20 was rejected
\* with 18 reported
C10_Witness ==
    /\ actor = "w"
    /\ store.out.screen = "budget_error"
    /\ CommittedHours(store.reports, "w", DraftDate(store, "w")) = 6
    /\ store.out.max = 18

\* C11: at every step that captures hours (a new report of the worker, TIM
\* or IT flow, or an edit of a committed record) a value outside 1..24 or a
\* non-number is rejected before the budget is looked at: the reply is the
\* plain error prompt without a budget figure, it is the same whatever the
\* committed records are, and the records, the session, the history and the
\* draft are left as they were.
C11_HoursValidatedFirst ==
    store.us[actor].state \in HoursSteps =>
        \A tok \in Invalid :
            LET S1 == Typed(store, actor, tok)
                S0 == Typed([store EXCEPT !.reports = <<>>], actor, tok)
            IN /\ S1.out.screen = "error"
               /\ S1.out.max = -1
               /\ S0.out = S1.out
               /\ S0.us = S1.us
               /\ S1.reports = store.reports
               /\ S1.us = store.us
               /\ S1.hist = store.hist
               /\ S1.heap = store.heap

\* an invalid value was just refused at the edit step, and at a new-report
\* step a day that already carries hours is being added to
C11_Witness ==
    /\ store.us[actor].state \in HoursSteps
    /\ store.out.screen = "error"
    /\ store.reports # <<>>
    /\ store.us[actor].state = "waiting_edit_queue_hours"
           \/ AlreadyCommitted(store, actor) > 0

\* C12: the foreman's crop flow runs from the rows to Confirm: at each of
\* its capture steps a valid number is taken and the flow moves on to the
\* next field (for Zucchini rows, field, workers, for Potato the bags as
\* well), so that Zucchini reaches Confirm without bags and Potato only
\* with them.
ForemanSteps ==
    {"brig_zucchini_rows", "brig_potato_rows"}

C12_ForemanFlowAdvances ==
    store.us[actor].state \in ForemanSteps =>
        LET S1 == Typed(store, actor, "6")
        IN /\ S1.us[actor].state # store.us[actor].state
           /\ S1.out.screen # "none"

\* C13: every committed record carries each field its flow requires, with
\* a value: the user, the location and activity with their category tags,
\* the date and the hours; and it carries the category tags of the flow
\* that wrote it, not those of another flow's draft.
FlowTags(u) ==
    CASE is_it(u) -> {<<"it", "it">>}
      [] is_tim(u) -> {<<"tim", "tim">>}
      [] OTHER -> {<<GROUP_FIELDS, GROUP_TECH>>, <<GROUP_WARE, GROUP_TECH>>,
                   <<GROUP_FIELDS, GROUP_HAND>>, <<GROUP_WARE, GROUP_HAND>>}

C13_FinishedRecordComplete ==
    \A i \in 1..Len(store.reports) :
        LET r == store.reports[i]
        IN /\ r.user \in Users
           /\ r.location # <<>>
           /\ r.activity # <<>>
           /\ r.work_date \in DateSet
           /\ r.hours \in MinHours..DayLimit
           /\ <<r.loc_grp, r.act_grp>> \in FlowTags(r.user)

\* the inputs that step back: the two back buttons, and the cancel token
\* at the hours step of a warehouse draft
BackInputs ==
    {<<"cb", "back:prev">>, <<"cb", "cancel_location">>, <<"text", "0">>}

\* C14: while go_back replays the callback of the entry it popped, nothing
\* is pushed onto the history, so a back never leaves the history longer
\* than it found it.
C14_BackNeverPushes ==
    \A inp \in BackInputs :
        LET H == Handle(store, actor, inp)
        IN H.out.replayed # "none"
               => /\ H.pushed = <<>>
                  /\ Len(H.hist[actor]) <= Len(store.hist[actor])

\* a back has just replayed menu:work, which pushes when it is pressed in
\* the middle of a draft, onto a session that was in the middle of a draft
C14_Witness ==
    /\ store.out.replayed = "menu:work"
    /\ store.us[actor].state = "waiting_date_selection_universal"

\* C15: go_back resets the restoring flag whether the handler it replays
\* returns or raises, so the flag is down whenever a turn starts, and a
\* forward transition out of a step with a back target pushes its entry
\* again.
C15_FlagAlwaysCleared ==
    /\ store.restoring = FALSE
    /\ \A n \in {"up", "down"}, inp \in BackInputs :
           Handle([store EXCEPT !.net = n], actor, inp).restoring = FALSE
    /\ store.us[actor].state # NoneStep
           => Handle(store, actor, <<"cb", "work:grp:tech">>).pushed # <<>>

\* a back has just failed in the middle of the replay, and the session is
\* at a step again
C15_Witness ==
    /\ store.out.failed
    /\ store.out.replayed # "none"
    /\ store.us[actor].state # NoneStep

\* the cancel button and the cancel token
CancelInputs ==
    {<<"cb", "back:prev">>, <<"text", "0">>}

\* C16: at the root menu (idle session, empty history) a cancel renders the
\* root menu and leaves the session idle with an empty history, and a
\* second cancel right after it does the same again.
C16_CancelAtRootIdempotent ==
    (store.us[actor] = IdleSession /\ store.hist[actor] = <<>>) =>
        \A inp \in CancelInputs :
            LET S1 == settle(Handle(store, actor, inp))
                S2 == settle(Handle(S1, actor, inp))
            IN /\ S1.out.screen = "main_menu"
               /\ S2.out.screen = "main_menu"
               /\ S1.us[actor] = IdleSession /\ S1.hist[actor] = <<>>
               /\ S2.us = S1.us /\ S2.hist = S1.hist /\ S2.reports = S1.reports

\* C17: when what is typed is, apart from surrounding blanks, a number n
\* written in digits with 1 <= n <= the length of the list, the resolver
\* returns the n-th item of the list whatever the names are; the names are
\* compared only when the input is not such a number.
C17_IndexPriority ==
    store.resolved =>
        LET text == strip(store.user_input)
            n == str_int(text)
        IN (str_isdigit(text) /\ 1 <= n /\ n <= Len(store.items))
               => store.result = <<store.items[n]>>

\* "1" was typed at a list whose second item is named "1" and whose first
\* item is named "2": the first item was returned
C17_Witness ==
    /\ store.resolved
    /\ store.user_input = <<"1">>
    /\ Len(store.items) = 2
    /\ store.items[1].name = <<"2">>
    /\ store.items[2].name = <<"1">>
    /\ store.result = <<store.items[1]>>

\* C18: a turn in which an exception was raised ends with the user's
\* session cleared: the step is null, the buffer and the history are empty,
\* and nothing of the turn's partial progress is left behind.
C18_FailureClearsSession ==
    store.out.failed =>
        /\ store.us[actor] = IdleSession
        /\ store.hist[actor] = <<>>

\* the buttons that commit a draft
CommitButtons ==
    {"confirm:worker", "confirm:it", "confirm:brig", "tim:save:simple"}

\* the draft that button cb is to commit is not in the buffer
DraftMissing(S, u, cb) ==
    IF cb = "tim:save:simple" THEN S.us[u].data.tim_report = 0
    ELSE S.us[u].data.temp_report = <<>>

\* C19: a contract violation ends the turn with a failure message and an
\* idle session: a commit button pressed when the buffer holds no draft,
\* and a message that arrives at a capture step no branch handles.
C19_ContractViolationClears ==
    /\ \A cb \in CommitButtons \cap Buttons(actor) :
           DraftMissing(store, actor, cb) =>
               LET S1 == settle(Handle(store, actor, <<"cb", cb>>))
               IN /\ S1.out.screen \in {"stale", "error"}
                  /\ S1.us[actor] = IdleSession
    /\ store.us[actor].state \in ForemanSteps =>
           LET S1 == Typed(store, actor, "6")
           IN /\ S1.out.screen \in {"stale", "error"}
              /\ S1.us[actor] = IdleSession

StoreUsers == {"u1", "u2"}
StoreSteps == {"SELECT_WORK", "SELECT_SHIFT"}
StoreKeys == {"work", "shift"}
StoreVals == {"a", "b"}

NewEntry == [state |-> NoneStep, data |-> << >>]

Dicts == UNION {[K -> StoreVals] : K \in SUBSET StoreKeys}

put(d, key, value) ==
    [k \in DOMAIN d \cup {key} |-> IF k = key THEN value ELSE d[k]]

get_user_state(US, user_id) ==
    IF user_id \in DOMAIN US
    THEN US
    ELSE [v \in DOMAIN US \cup {user_id} |->
             IF v = user_id THEN NewEntry ELSE US[v]]

set_user_state_dropping_data(US, user_id, state, data) ==
    LET U1 == get_user_state(US, user_id)
    IN [U1 EXCEPT ![user_id] =
           [state |-> state,
            data |-> IF data # << >> THEN data[1] ELSE << >>]]

set_user_state(US, user_id, state, data) ==
    LET U1 == get_user_state(US, user_id)
        U2 == [U1 EXCEPT ![user_id].state = state]
    IN IF data # << >> THEN [U2 EXCEPT ![user_id].data = data[1]] ELSE U2

update_user_data(US, user_id, key, value) ==
    LET U1 == get_user_state(US, user_id)
    IN [U1 EXCEPT ![user_id].data = put(@, key, value)]

clear_user_state_everyone(US, user_id) ==
    [v \in DOMAIN US \cup {user_id} |-> NewEntry]

clear_user_state(US, user_id) ==
    [v \in DOMAIN US \cup {user_id} |->
        IF v = user_id THEN NewEntry ELSE US[v]]

\* What a caller reads back for a user.
Session(US, u) == get_user_state(US, u)[u]

\* `written` records, per user, the step and the data last written through
\* the interface; `op` names the last operation, `actor` its user.
InitStoreModule ==
    /\ store = [user_states |-> << >>,
                written |-> [u \in StoreUsers |-> NewEntry],
                op |-> "none"]
    /\ actor \in StoreUsers
    /\ turns = 0
    /\ stale = 0

StoreStep(u, US, W, op) ==
    /\ store' = [user_states |-> US, written |-> W, op |-> op]
    /\ actor' = u

GetState ==
    /\ \E u \in StoreUsers :
           StoreStep(u, get_user_state(store.user_states, u),
                     store.written, "get_state")
    /\ UNCHANGED <<turns, stale>>

SetState ==
    /\ \E u \in StoreUsers, st \in StoreSteps :
           StoreStep(u, set_user_state(store.user_states, u, st, << >>),
                     [store.written EXCEPT ![u].state = st], "set_state")
    /\ UNCHANGED <<turns, stale>>

SetStateData ==
    /\ \E u \in StoreUsers, st \in StoreSteps, d \in Dicts :
           StoreStep(u, set_user_state(store.user_states, u, st, <<d>>),
                     [store.written EXCEPT ![u] = [state |-> st, data |-> d]],
                     "set_state_data")
    /\ UNCHANGED <<turns, stale>>

UpdateUserData ==
    /\ \E u \in StoreUsers, k \in StoreKeys, v \in StoreVals :
           StoreStep(u, update_user_data(store.user_states, u, k, v),
                     [store.written EXCEPT ![u].data = put(@, k, v)],
                     "update_user_data")
    /\ UNCHANGED <<turns, stale>>

ClearState ==
    /\ \E u \in StoreUsers :
           StoreStep(u, clear_user_state(store.user_states, u),
                     [store.written EXCEPT ![u] = NewEntry], "clear_state")
    /\ UNCHANGED <<turns, stale>>

NextStore ==
    \/ GetState
    \/ SetState
    \/ SetStateData
    \/ UpdateUserData
    \/ ClearState

SpecStore == InitStoreModule /\ [][NextStore]_vars

\* C21: the session store keeps users apart: every user's step and data are
\* what was last written for that user, and an operation on one user leaves
\* every other user's step and data as they were.
C21_PerUserIsolation ==
    [][/\ \A u \in StoreUsers :
             Session(store'.user_states, u) = store'.written[u]
       /\ \A u \in StoreUsers \ {actor'} :
             Session(store'.user_states, u) = Session(store.user_states, u)]_vars

C21_Witness ==
    /\ store.op = "clear_state"
    /\ actor = "u1"
    /\ "u2" \in DOMAIN store.user_states
    /\ store.user_states["u2"].state = "SELECT_SHIFT"
    /\ DOMAIN store.user_states["u2"].data = StoreKeys
    /\ Session(store.user_states, "u1") = NewEntry

\* C22: set_state without a data argument changes only the step: the keys
\* gathered so far keep their values; among set_state without data,
\* update_user_data and clear_state, only clear_state removes a key.
C22_StepChangeKeepsData ==
    [][/\ store'.op = "set_state"
          => /\ Session(store'.user_states, actor').data
                  = Session(store.user_states, actor').data
             /\ Session(store'.user_states, actor').state \in StoreSteps
       /\ store'.op \in {"set_state", "update_user_data", "get_state"}
          => \A k \in DOMAIN Session(store.user_states, actor').data :
                /\ k \in DOMAIN Session(store'.user_states, actor').data
                /\ store'.op # "update_user_data"
                   => Session(store'.user_states, actor').data[k]
                         = Session(store.user_states, actor').data[k]
       /\ store'.op = "clear_state"
          => Session(store'.user_states, actor').data = << >>]_vars

C22_Witness ==
    /\ store.op = "set_state"
    /\ Session(store.user_states, actor).state = "SELECT_SHIFT"
    /\ DOMAIN Session(store.user_states, actor).data = StoreKeys

\* C23: a forward transition that pushes a history entry records in it the
\* step the user was at and the buffer as it was before the turn wrote the
\* value it captured.
C23_EntryHoldsPreMergeBuffer ==
    \A inp \in Inputs(store, actor) :
        LET H == Handle(store, actor, inp)
        IN (/\ Len(H.pushed) = 1
            /\ ~H.raised
            /\ H.out.replayed = "none"
            /\ H.us[actor].state # store.us[actor].state)
           => /\ H.pushed[1].state = store.us[actor].state
              /\ Deep(H, H.pushed[1].data) = Deep(store, store.us[actor].data)

\* C24: the buffer saved in a history entry is fixed when the entry is
\* pushed: no turn changes the saved buffer, nested values included, of an
\* entry that stays in the history.
C24_SnapshotsNotAliased ==
    [][\A i \in 1..Len(store.hist[actor]) :
          (i <= Len(store'.hist[actor]) /\ store'.hist[actor][i] = store.hist[actor][i])
          => Deep(store', store'.hist[actor][i].data)
                = Deep(store, store.hist[actor][i].data)]_vars

\* ------------------------------------------- turns on server threads
\* app.run() serves every webhook request on a thread of its own and
\* nothing in the handlers takes a lock, so a turn that waits (on the
\* messaging API, on the database) is overtaken by the turns of other
\* requests.  `waiting` holds the turn that is suspended part-way: go_back
\* between its restore and the replay it is about to make, or a
\* confirmation (confirm:worker, confirm:it) between insert_report and the
\* rest of the handler.
ThreadUsers == {"w", "i"}

\* go_back up to the point where _restoring_state has been set
go_back_restore(S, u) ==
    LET h == S.hist[u]
        prev_state == h[Len(h)]
    IN [S EXCEPT !.hist[u] = SubSeq(h, 1, Len(h) - 1),
                 !.us[u] = [state |-> prev_state.state, data |-> prev_state.data],
                 !.restoring = TRUE,
                 !.waiting = <<[user |-> u, at |-> "go_back",
                                back_callback |-> prev_state.back_callback,
                                temp_report |-> <<>>]>>]

\* go_back from the replay to the end of its finally clause
go_back_replay(S, u, back_callback) ==
    LET S2 == dispatch_callback(S, u, back_callback)
    IN [S2 EXCEPT !.restoring = FALSE, !.out.replayed = back_callback,
                  !.waiting = <<>>]

\* confirm:worker and confirm:it up to the return of insert_report
confirm_insert(S, u) ==
    LET t == S.us[u].data.temp_report[1]
        S1 == insert_report(S, u, t.location, t.loc_grp, t.activity,
                            t.act_grp, t.work_date, t.hours)
    IN [S1 EXCEPT !.waiting = <<[user |-> u, at |-> "confirm",
                                 back_callback |-> NoneStep,
                                 temp_report |-> <<t>>]>>]

\* confirm:worker and confirm:it after insert_report
confirm_finish(S, u, t) ==
    LET S1 == [S EXCEPT !.waiting = <<>>]
    IN IF bad_date(t.work_date)
       THEN raise(S1)
       ELSE show_main_menu(notify(clear_state(S1, u), "saved"), u)

\* what a user sends: an answer or a button of the current screen; the
\* IT user also presses the statistics button of the menu further up
ThreadInputs(S, u) ==
    Inputs(S, u) \cup (IF is_it(u) THEN {<<"cb", "menu:stats">>} ELSE {})

InitThreads ==
    /\ actor \in ThreadUsers
    /\ store = InitStore
    /\ turns = 0
    /\ stale = 0

ThreadDeliver(u, S1) ==
    /\ turns < MaxTurnsThreads
    /\ Len(S1.reports) <= MaxReports
    /\ store' = settle(S1)
    /\ turns' = turns + 1
    /\ actor' = u

\* a turn that runs from start to end without being overtaken
ThreadTurn ==
    /\ \E u \in ThreadUsers : \E inp \in ThreadInputs(store, u) :
           ThreadDeliver(u, Handle(store, u, inp))
    /\ stale' = stale

BackRestore ==
    /\ store.waiting = <<>>
    /\ \E u \in ThreadUsers :
           /\ can_go_back(store, u)
           /\ ThreadDeliver(u, go_back_restore(begin(store), u))
    /\ stale' = stale

BackReplay ==
    /\ store.waiting # <<>>
    /\ store.waiting[1].at = "go_back"
    /\ ThreadDeliver(store.waiting[1].user,
                     go_back_replay(begin(store), store.waiting[1].user,
                                    store.waiting[1].back_callback))
    /\ stale' = stale

ConfirmInsert ==
    /\ store.waiting = <<>>
    /\ \E u \in ThreadUsers :
           /\ store.us[u].data.temp_report # <<>>
           /\ ThreadDeliver(u, confirm_insert(begin(store), u))
    /\ stale' = stale

ConfirmFinish ==
    /\ store.waiting # <<>>
    /\ store.waiting[1].at = "confirm"
    /\ ThreadDeliver(store.waiting[1].user,
                     confirm_finish(begin(store), store.waiting[1].user,
                                    store.waiting[1].temp_report[1]))
    /\ stale' = stale

NextThreads ==
    \/ ThreadTurn
    \/ BackRestore
    \/ BackReplay
    \/ ConfirmInsert
    \/ ConfirmFinish

SpecThreads == InitThreads /\ [][NextThreads]_vars

\* the steps whose handler tests for the cancel token
ZeroSteps ==
    {"tim_wait_activity", "tim_wait_location", "tim_wait_hours", "it_waiting_hours",
     "work_tractor_machinery", "work_tractor_activity", "work_tractor_field",
     "work_tractor_crop", "work_manual_activity", "work_manual_field",
     "work_manual_crop", "waiting_location_selection", "waiting_hours",
     "waiting_date_selection_universal", "waiting_edit_selection_multi",
     "waiting_edit_queue_hours"}

\* C25: at a step that recognises "0", the token does what back does while
\* the history holds an entry (the top entry is popped and restored), and
\* renders the root menu when the history is empty.
C25_CancelAttemptsBackFirst ==
    store.us[actor].state \in ZeroSteps =>
        LET S1 == Typed(store, actor, "0")
        IN IF store.hist[actor] # <<>>
           THEN S1 = Back(store, actor)
           ELSE S1.out.screen = "main_menu"

\* the hours the budget check of u's flow counts for date d
BudgetHours(S, u, d) ==
    IF is_it(u) THEN existing_it_hours(S.reports, u, d)
    ELSE sum_hours_for_user_date(S.reports, u, d, FALSE)

ConfirmOf(u) ==
    IF is_it(u) THEN "confirm:it" ELSE "confirm:worker"

\* C26: Confirm checks the day's budget again: a draft whose hours, added
\* to the hours committed by then for its date, exceed 24 is not persisted.
C26_CommitRevalidatesBudget ==
    \A u \in ThreadUsers :
        store.us[u].data.temp_report # <<>> =>
            LET t == store.us[u].data.temp_report[1]
                H == Handle(store, u, <<"cb", ConfirmOf(u)>>)
            IN BudgetHours(store, u, t.work_date) + t.hours > DayLimit
                  => H.reports = store.reports

\* C28: a turn of a user ends with the session and the history it would
\* have ended with had no other user's turn been under way.
C28_CrossUserIndependence ==
    \A u \in ThreadUsers : \A inp \in ThreadInputs(store, u) :
        (store.waiting # <<>> /\ store.waiting[1].user # u) =>
            LET H == settle(Handle(store, u, inp))
                A == settle(Handle([store EXCEPT !.restoring = FALSE, !.waiting = <<>>],
                                   u, inp))
            IN /\ H.us[u] = A.us[u]
               /\ H.hist[u] = A.hist[u]

\* C29: while a turn of a user is under way, no other turn touches that
\* user's session, history or committed records.
C29_OneTurnInFlightPerUser ==
    [][(store.waiting # <<>> /\ store'.waiting # <<>>)
          => LET u == store.waiting[1].user
             IN /\ store'.us[u] = store.us[u]
                /\ store'.hist[u] = store.hist[u]
                /\ SelectSeq(store'.reports, LAMBDA r : r.user = u)
                      = SelectSeq(store.reports, LAMBDA r : r.user = u)]_vars

\* hours of u's committed records for the date of record rid, that record
\* left out
OtherHours(reports, u, rid) ==
    LET RECURSIVE Sum(_)
        Sum(i) ==
            IF i = 0 THEN 0
            ELSE Sum(i - 1)
                 + (IF /\ i # rid
                       /\ reports[i].user = u
                       /\ reports[i].work_date = reports[rid].work_date
                    THEN reports[i].hours ELSE 0)
    IN Sum(Len(reports))

\* C27: new hours for a committed record are refused, and the record keeps
\* its hours, when the user's other records of that date plus the new
\* hours exceed 24.
C27_EditRespectsBudget ==
    LET d == store.us[actor].data
    IN (/\ store.us[actor].state = "waiting_edit_queue_hours"
        /\ d.current_edit_idx + 1 <= Len(d.edit_queue))
       => \A tok \in {"6", "20"} :
              LET rid == d.edit_queue[d.current_edit_idx + 1].rid
              IN OtherHours(store.reports, actor, rid) + int(tok) > DayLimit
                    => Typed(store, actor, tok).reports = store.reports

\* C30: a text that is no global command, sent while the session is idle,
\* is answered with the root menu and leaves the session idle.
C30_IdleTextShowsRootMenu ==
    store.us[actor].state = NoneStep =>
        \A tok \in {"1", "6", "abc"} :
            LET S1 == Typed(store, actor, tok)
            IN /\ S1.out.screen = "main_menu"
               /\ S1.us[actor] = IdleSession

\* C31: while a step is active, a text other than the hard-reset token is
\* handled by that step's handler, the command words included.
C31_ActiveStepHandlesText ==
    store.us[actor].state # NoneStep =>
        \A tok \in CommandWords :
            Typed(store, actor, tok) = settle(dispatch_text(begin(store), actor, tok))

\* C32: a back that finds the history non-empty removes its top entry and
\* nothing else: the history afterwards is the history before without its
\* last element.
C32_BackPopsExactlyOne ==
    LET h == store.hist[actor]
    IN can_go_back(store, actor)
          => Back(store, actor).hist[actor] = SubSeq(h, 1, Len(h) - 1)

\* the confirm selection of the user's flow and the step at which it is
\* offered
ConfirmSelection(u) ==
    IF is_brigadier(u) THEN "confirm:brig" ELSE ConfirmOf(u)

ConfirmStep(u) ==
    CASE is_brigadier(u) -> "waiting_confirmation_brigadier"
      [] is_it(u) -> "waiting_confirmation_it"
      [] OTHER -> "waiting_confirmation_worker"

\* C33: a confirm selection that arrives while the session is at a step
\* other than its Confirm step persists nothing.
C33_ConfirmOnlyAtConfirmStep ==
    store.us[actor].state # ConfirmStep(actor)
        => Handle(store, actor, <<"cb", ConfirmSelection(actor)>>).reports = store.reports

\* C34: at the hours step of the worker flows, the draft that a valid
\* hour count freezes carries the date the operator chose at the
\* date-selection step (the date held in the session's buffer).
C34_DraftCarriesChosenDate ==
    (store.us[actor].state = "waiting_hours" /\ store.us[actor].data.date # Absent)
        => \A tok \in Answers(store, actor) :
               LET S1 == Typed(store, actor, tok)
               IN S1.us[actor].data.temp_report # <<>>
                      => S1.us[actor].data.temp_report[1].work_date
                             = store.us[actor].data.date

\* the selections that persist the draft of the user's flow
SaveSelections(u) ==
    IF is_tim(u) THEN {"tim:save:simple", "tim:save:template"}
    ELSE {ConfirmSelection(u)}

\* C35: once a confirm turn has inserted a draft's record, a replay of the
\* same confirm selection inserts no second record from that draft, also
\* when the send of the confirmation fails after the insert.
C35_DraftPersistedOnce ==
    \A n \in {"up", "down"} : \A cb \in SaveSelections(actor) :
        LET S1 == settle(Handle([store EXCEPT !.net = n], actor, <<"cb", cb>>))
        IN Len(S1.reports) > Len(store.reports)
               => Handle(S1, actor, <<"cb", cb>>).reports = S1.reports

\* ---------------------------------------------------------------------
\* The webhook's duplicate filter.  A payload is the sequence of the
\* messages it carries, in the order process_webhook walks them; handled
\* counts the calls of _handle_message per message id.
\* ---------------------------------------------------------------------
MaxPayload == 2
MaxHandled == 3
CleanupLimit == 10000

MsgIds == {"m1", "m2", "m3", "m4"}

Payloads ==
    {p \in UNION {[1..n -> MsgIds] : n \in 1..MaxPayload} :
        \A i, j \in DOMAIN p : i # j => p[i] # p[j]}

\* the pair <<answer, processed_messages afterwards>>
is_message_processed(processed_messages, msg_id) ==
    IF msg_id \in processed_messages THEN <<TRUE, processed_messages>>
    ELSE LET added == processed_messages \cup {msg_id}
         IN <<FALSE, IF Cardinality(added) > CleanupLimit THEN {} ELSE added>>

process_webhook(handled, payload) ==
    [m \in MsgIds |->
        handled[m] + Cardinality({i \in DOMAIN payload : payload[i] = m})]

webhook(D, payload) ==
    LET r == is_message_processed(D.processed_messages, payload[1])
    IN IF r[1] THEN [D EXCEPT !.answer = "Duplicate ignored"]
       ELSE [processed_messages |-> r[2],
             handled |-> process_webhook(D.handled, payload),
             answer |-> "OK"]

InitDedup ==
    /\ store = [processed_messages |-> {}, handled |-> [m \in MsgIds |-> 0],
                answer |-> "none"]
    /\ actor = "w"
    /\ turns = 0
    /\ stale = 0

Webhook ==
    /\ \E payload \in Payloads :
           /\ \A i \in DOMAIN payload : store.handled[payload[i]] < MaxHandled
           /\ store' = webhook(store, payload)
    /\ UNCHANGED <<actor, turns, stale>>

NextDedup ==
    Webhook

SpecDedup == InitDedup /\ [][NextDedup]_vars

\* C36: every inbound message id is handled at most once, whatever its
\* position in the payload and whatever arrived in between.
C36_MessageHandledOnce ==
    \A m \in MsgIds : store.handled[m] <= 1

\* ---------------------------------------------------------------------
\* The reminder job (check_reminders, started every minute by the
\* background scheduler in a thread of its own) beside the users' turns.
\* The clock counts the minutes after StartHour:00 of one day and rows is
\* that day's part of the reminder_status table.  The job reads a user's
\* row, decides, and sends and writes afterwards: the three are separate
\* steps, and a turn of the user can run between them.
\* ---------------------------------------------------------------------
StartHour == 13
MaxClock == 420
RemindFrom == 14
RemindUntil == 19
ConfirmUntil == 20
RemindGap == 49
MinutesPerHour == 60

RemindUsers == <<"w", "i">>

NoRow == [status |-> "None", last_reminded_at |-> <<>>]

hour_of(now) ==
    StartHour + (now \div MinutesPerHour)

set_reminder_status(rows, user_id, status, last_reminded_at) ==
    IF last_reminded_at # <<>>
    THEN [rows EXCEPT ![user_id] = [status |-> status,
                                    last_reminded_at |-> last_reminded_at]]
    ELSE [rows EXCEPT ![user_id].status = status]

\* the job moves on to the next user of its list, or ends
next_user(R) ==
    IF R.job[1].idx = Len(RemindUsers) THEN [R EXCEPT !.job = <<>>]
    ELSE [R EXCEPT !.job[1].idx = @ + 1, !.job[1].pc = "read"]

check_reminders_start(R) ==
    IF ~(RemindFrom <= hour_of(R.clock) /\ hour_of(R.clock) < ConfirmUntil) THEN R
    ELSE [R EXCEPT !.job = <<[now |-> R.clock, idx |-> 1, pc |-> "read"]>>]

check_reminders_read(R) ==
    LET uid == RemindUsers[R.job[1].idx]
        now == R.job[1].now
        hour == hour_of(now)
        status_data == R.rows[uid]
        filled == R.filled[uid]
    IN IF status_data.status = "disabled" THEN next_user(R)
       ELSE IF RemindFrom <= hour /\ hour < RemindUntil
       THEN IF ~filled /\ (\/ status_data.last_reminded_at = <<>>
                           \/ now - status_data.last_reminded_at[1] >= RemindGap)
            THEN [R EXCEPT !.job[1].pc = "remind"]
            ELSE next_user(R)
       ELSE IF RemindUntil <= hour /\ hour < ConfirmUntil
       THEN IF filled /\ status_data.status # "reminded_19:00"
            THEN [R EXCEPT !.job[1].pc = "confirm"]
            ELSE next_user(R)
       ELSE next_user(R)

\* wa.send_message and, when it did not raise, set_reminder_status
check_reminders_send(R, ok) ==
    LET uid == RemindUsers[R.job[1].idx]
        status == IF R.job[1].pc = "remind" THEN "reminded" ELSE "reminded_19:00"
    IN IF ~ok THEN next_user(R)
       ELSE next_user([R EXCEPT !.reminded = <<uid>>,
                                !.rows = set_reminder_status(R.rows, uid, status,
                                                             <<R.job[1].now>>)])

cb_reminder_cancel(R, user_id) ==
    [R EXCEPT !.rows = set_reminder_status(R.rows, user_id, "disabled", <<>>)]

RemindUserSet == {RemindUsers[i] : i \in DOMAIN RemindUsers}

InitRemind ==
    /\ store = [rows |-> [u \in RemindUserSet |-> NoRow],
                filled |-> [u \in RemindUserSet |-> FALSE],
                clock |-> 0, job |-> <<>>, reminded |-> <<>>]
    /\ actor = "w"
    /\ turns = 0
    /\ stale = 0

Quiet(R) == [R EXCEPT !.reminded = <<>>]

Tick ==
    /\ \E d \in {RemindGap, MinutesPerHour} :
           /\ store.clock + d <= MaxClock
           /\ store' = [Quiet(store) EXCEPT !.clock = @ + d]
    /\ UNCHANGED <<actor, turns, stale>>

JobStart ==
    /\ store.job = <<>>
    /\ store' = check_reminders_start(Quiet(store))
    /\ UNCHANGED <<actor, turns, stale>>

JobRead ==
    /\ store.job # <<>>
    /\ store.job[1].pc = "read"
    /\ store' = check_reminders_read(Quiet(store))
    /\ UNCHANGED <<actor, turns, stale>>

JobSend ==
    /\ store.job # <<>>
    /\ store.job[1].pc \in {"remind", "confirm"}
    /\ \E ok \in BOOLEAN : store' = check_reminders_send(Quiet(store), ok)
    /\ UNCHANGED <<actor, turns, stale>>

ReminderCancel ==
    /\ \E u \in RemindUserSet :
           /\ store' = cb_reminder_cancel(Quiet(store), u)
           /\ actor' = u
    /\ UNCHANGED <<turns, stale>>

FillReport ==
    /\ \E u \in RemindUserSet :
           /\ ~store.filled[u]
           /\ store' = [Quiet(store) EXCEPT !.filled[u] = TRUE]
           /\ actor' = u
    /\ UNCHANGED <<turns, stale>>

NextRemind ==
    \/ Tick
    \/ JobStart
    \/ JobRead
    \/ JobSend
    \/ ReminderCancel
    \/ FillReport

SpecRemind == InitRemind /\ [][NextRemind]_vars

\* C37: once a user's reminder status of the day is "disabled" it stays
\* "disabled" and no reminder is sent to that user, under any interleaving
\* of the reminder job with the user's turns.
C37_DisabledStaysDisabled ==
    [][\A u \in RemindUserSet :
          store.rows[u].status = "disabled"
              => /\ store'.rows[u].status = "disabled"
                 /\ store'.reminded # <<u>>]_vars

\* ---------------------------------------------------------------------
\* The admin's delete lists.  Callback data is the sequence of its
\* colon-separated parts; the catalogue is the set of location ids and the
\* set of activity ids (odd ids in the machinery group, even ids in the
\* manual group).  The catalogues fit on one page of the list.  The actor
\* is an admin.
\* ---------------------------------------------------------------------
MaxLoc == 3
MaxAct == 4

LocIds == 1..MaxLoc
ActIds == 1..MaxAct

act_grp_of(aid) ==
    IF aid % 2 = 1 THEN GROUP_TECH ELSE GROUP_HAND

\* data.startswith(prefix), for a prefix that ends with a part
startswith(data, prefix) ==
    /\ Len(data) >= Len(prefix)
    /\ SubSeq(data, 1, Len(prefix)) = prefix

\* data.startswith(prefix), for a prefix that ends with a colon
startswith_colon(data, prefix) ==
    /\ Len(data) > Len(prefix)
    /\ SubSeq(data, 1, Len(prefix)) = prefix

list_activities_with_id(activities, grp) ==
    {aid \in activities : act_grp_of(aid) = grp}

remove_location_by_id(A, lid) ==
    [A EXCEPT !.locations = @ \ {lid},
              !.screen = IF lid \in A.locations THEN "loc_deleted" ELSE "delete_error",
              !.rows = {}]

remove_activity_by_id(A, aid) ==
    [A EXCEPT !.activities = @ \ {aid},
              !.screen = IF aid \in A.activities THEN "act_deleted" ELSE "delete_error",
              !.rows = {}]

\* the adm:del branches of handle_callback, in the order of its elif chain
adm_callback(A, data) ==
    IF data = <<"adm", "del", "act">>
    THEN [A EXCEPT !.screen = "pick_act_group", !.rows = {}]
    ELSE IF startswith(data, <<"adm", "del", "loc">>)
    THEN IF A.locations = {}
         THEN [A EXCEPT !.screen = "no_locations", !.rows = {}]
         ELSE [A EXCEPT !.screen = "del_loc_list",
                        !.rows = {<<"adm", "del", "loc", "CONFIRM", lid>> :
                                      lid \in A.locations}]
    ELSE IF startswith_colon(data, <<"adm", "del", "act">>)
    THEN LET grp == IF data[4] = "tech" THEN GROUP_TECH ELSE GROUP_HAND
             activities == list_activities_with_id(A.activities, grp)
         IN IF activities = {}
            THEN [A EXCEPT !.screen = "no_activities", !.rows = {}]
            ELSE [A EXCEPT !.screen = "del_act_list",
                           !.rows = {<<"adm", "del", "act", "CONFIRM", aid>> :
                                         aid \in activities}]
    ELSE IF startswith_colon(data, <<"adm", "del", "loc", "CONFIRM">>)
    THEN remove_location_by_id(A, data[5])
    ELSE IF startswith_colon(data, <<"adm", "del", "act", "CONFIRM">>)
    THEN remove_activity_by_id(A, data[5])
    ELSE A

InitAdmin ==
    /\ \E L \in SUBSET LocIds : \E C \in SUBSET ActIds :
           store = [locations |-> L, activities |-> C, screen |-> "none", rows |-> {},
                    data |-> <<>>]
    /\ actor = "w"
    /\ turns = 0
    /\ stale = 0

OpenDeleteList ==
    /\ \E data \in {<<"adm", "del", "loc">>, <<"adm", "del", "act">>,
                     <<"adm", "del", "act", "tech">>, <<"adm", "del", "act", "hand">>} :
           store' = [adm_callback(store, data) EXCEPT !.data = data]
    /\ UNCHANGED <<actor, turns, stale>>

SelectEntry ==
    /\ \E data \in store.rows :
           store' = [adm_callback(store, data) EXCEPT !.data = data]
    /\ UNCHANGED <<actor, turns, stale>>

NextAdmin ==
    \/ OpenDeleteList
    \/ SelectEntry

SpecAdmin == InitAdmin /\ [][NextAdmin]_vars

\* C38: selecting an entry of a delete list removes that location or
\* activity from the catalogue.
C38_SelectedEntryRemoved ==
    \A data \in store.rows :
        LET A1 == adm_callback(store, data)
        IN IF data[3] = "loc" THEN data[5] \notin A1.locations
           ELSE data[5] \notin A1.activities

\* C39: whenever a user's session is idle (step None) that user's history
\* stack is empty, and no entry of any history was pushed from the idle
\* step.
C39_IdleHasEmptyHistory ==
    \A u \in Users :
        /\ store.us[u].state = NoneStep => store.hist[u] = <<>>
        /\ \A k \in 1..Len(store.hist[u]) : store.hist[u][k].state # NoneStep

\* the worker is idle again, with nothing left of the history, after the
\* flow that pushed history entries on its way committed a record for the
\* second date
C39_Witness ==
    /\ actor = "w"
    /\ store.us["w"].state = NoneStep
    /\ store.hist["w"] = <<>>
    /\ \E i \in 1..Len(store.reports) :
           store.reports[i].user = "w" /\ store.reports[i].work_date = Dates[2]
====
